---- MODULE Spec2Model ----
(***************************************************************************)
(* Model of the authentication and session-lifecycle subsystem of          *)
(* steady-vitality: AuthService, the authenticate middleware, the Session  *)
(* and User entities, JWTService and PasswordService.                      *)
(*                                                                         *)
(* Time is counted in hours.  Strings that the code transforms (emails,    *)
(* passwords) are sequences of one-character strings.  Rows get their id   *)
(* from their position in the table (the code uses generated uuids).       *)
(***************************************************************************)
EXTENDS Integers, Sequences, FiniteSets, TLC

\* ------------------------------------------------------------------------
\* Bounds of the model
\* ------------------------------------------------------------------------
MaxUsers == 2
MaxSessions == 2
MaxIssued == 2
MaxTicks == 1
MaxRehash == 3
MaxNonce == 1
MaxTokens == 3
MaxNotes == 2
MaxCount == 2
MaxInflight == 2
MaxRaceUsers == 3

\* ------------------------------------------------------------------------
\* Strings
\* ------------------------------------------------------------------------
LowerAlpha ==
  <<"a","b","c","d","e","f","g","h","i","j","k","l","m",
    "n","o","p","q","r","s","t","u","v","w","x","y","z">>

UpperAlpha ==
  <<"A","B","C","D","E","F","G","H","I","J","K","L","M",
    "N","O","P","Q","R","S","T","U","V","W","X","Y","Z">>

DigitChars == {"0","1","2","3","4","5","6","7","8","9"}

SymbolChars ==
  {"!","@","#","$","%","^","&","*","(",")","_","+","-","=","[","]",
   "{","}",";","'",":","\"","\\","|",",",".","<",">","/","?"}

UpperChars == {UpperAlpha[i] : i \in 1..Len(UpperAlpha)}

LowerChars == {LowerAlpha[i] : i \in 1..Len(LowerAlpha)}

toLowerChar(c) ==
  IF c \in UpperChars
    THEN LowerAlpha[CHOOSE i \in 1..Len(UpperAlpha) : UpperAlpha[i] = c]
    ELSE c

toLowerCase(s) == [i \in 1..Len(s) |-> toLowerChar(s[i])]

trim(s) ==
  LET keep == {i \in 1..Len(s) : s[i] # " "}
  IN IF keep = {} THEN <<>>
     ELSE SubSeq(s, CHOOSE i \in keep : \A j \in keep : i <= j,
                    CHOOSE i \in keep : \A j \in keep : j <= i)

RECURSIVE join(_, _)
join(parts, sep) ==
  IF parts = <<>> THEN ""
  ELSE IF Len(parts) = 1 THEN parts[1]
  ELSE parts[1] \o sep \o join(Tail(parts), sep)

includes(s, sub) ==
  \E i \in 1..(Len(s) - Len(sub) + 1) : SubSeq(s, i, i + Len(sub) - 1) = sub

\* Array.prototype.includes.
arrayIncludes(list, x) == \E i \in 1..Len(list) : list[i] = x

\* ------------------------------------------------------------------------
\* PasswordService.validatePassword
\* ------------------------------------------------------------------------
MinPasswordLength == 8
MaxPasswordLength == 128

commonPasswords ==
  { <<"p","a","s","s","w","o","r","d">>,
    <<"p","a","s","s","w","o","r","d","1","2","3">>,
    <<"1","2","3","4","5","6">>,
    <<"1","2","3","4","5","6","7","8","9">>,
    <<"q","w","e","r","t","y">>,
    <<"a","b","c","1","2","3">>,
    <<"p","a","s","s","w","o","r","d","1">>,
    <<"a","d","m","i","n">>,
    <<"l","e","t","m","e","i","n">>,
    <<"w","e","l","c","o","m","e">> }

sequentialPatterns ==
  { <<"1","2","3","4","5","6">>,
    <<"a","b","c","d","e","f">>,
    <<"q","w","e","r","t","y">> }

hasChar(p, class) == \E i \in 1..Len(p) : p[i] \in class

validationErrors(p) ==
  IF p = <<>> THEN <<"Password is required">>
  ELSE
    (IF Len(p) < MinPasswordLength
       THEN <<"Password must be at least 8 characters long">> ELSE <<>>)
    \o (IF Len(p) > MaxPasswordLength
          THEN <<"Password must be no more than 128 characters long">>
          ELSE <<>>)
    \o (IF ~hasChar(p, UpperChars)
          THEN <<"Password must contain at least one uppercase letter">>
          ELSE <<>>)
    \o (IF ~hasChar(p, LowerChars)
          THEN <<"Password must contain at least one lowercase letter">>
          ELSE <<>>)
    \o (IF ~hasChar(p, DigitChars)
          THEN <<"Password must contain at least one number">> ELSE <<>>)
    \o (IF ~hasChar(p, SymbolChars)
          THEN <<"Password must contain at least one special character">>
          ELSE <<>>)
    \o (IF toLowerCase(p) \in commonPasswords
          THEN <<"Password is too common. Please choose a stronger password">>
          ELSE <<>>)
    \o (IF \E q \in sequentialPatterns : includes(toLowerCase(p), q)
          THEN <<"Password should not contain sequential characters">>
          ELSE <<>>)

\* validatePassword accepting every password (C15 fails under it).
validatePasswordLenient(p) == [isValid |-> TRUE, errors |-> <<>>]

validatePassword(p) ==
  [isValid |-> validationErrors(p) = <<>>, errors |-> validationErrors(p)]

\* ------------------------------------------------------------------------
\* PasswordService.generateRandomPassword
\* ------------------------------------------------------------------------
\* The pools the characters are drawn from, cut down to one character each.
lowercase == {"a"}

uppercase == {"A"}

numbers == {"1"}

symbols == {"!"}

allChars == lowercase \cup uppercase \cup numbers \cup symbols

\* for (let i = 4; i < length; i++) password += allChars[random]: every
\* text the loop can leave.
RECURSIVE fillRest(_, _, _)
fillRest(password, i, length) ==
  IF i < length
    THEN UNION {fillRest(Append(password, c), i + 1, length) : c \in allChars}
    ELSE {password}

removeAt(s, i) == SubSeq(s, 1, i - 1) \o SubSeq(s, i + 1, Len(s))

\* split('').sort(() => Math.random() - 0.5).join(''): the comparator
\* answers at random, so the characters may come out in any order.
RECURSIVE shuffle(_)
shuffle(password) ==
  IF password = <<>> THEN {<<>>}
  ELSE UNION {{<<c>> \o rest :
                 rest \in shuffle(removeAt(password,
                            CHOOSE i \in 1..Len(password) : password[i] = c))} :
              c \in {password[i] : i \in 1..Len(password)}}

\* Every password generateRandomPassword(length) can return.
generateRandomPassword(length) ==
  UNION {shuffle(filled) :
           filled \in UNION {fillRest(<<l, u, n, s>>, 4, length) :
                               l \in lowercase, u \in uppercase,
                               n \in numbers, s \in symbols}}

\* ------------------------------------------------------------------------
\* bcrypt.  A value is [plain, depth]: depth 0 is the text itself, depth n
\* is the hash of the value of depth n-1.  compare(text, h) holds exactly
\* when h is a hash of text.
\* ------------------------------------------------------------------------
Plain(p) == [plain |-> p, depth |-> 0]

bcryptHash(v) == [v EXCEPT !.depth = @ + 1]

bcryptCompare(text, h) == h = bcryptHash(Plain(text))

\* ------------------------------------------------------------------------
\* Inputs
\* ------------------------------------------------------------------------
AdminEmail == <<"r","@","s">>
AdminUsername == "admin"
AdminPassword == <<"A","d","m","i","n","1","2","3","!">>

RawEmails ==
  { <<"r","@","s">>, <<"c","@","s">>, <<" ","C","@","s"," ">> }

Usernames == {"admin", "carol"}

Passwords ==
  { AdminPassword,
    <<"P","a","s","s","w","0","r","d","!">>,
    <<"s","h","o","r","t">> }

Null == -1

NoHash == [plain |-> 0, depth |-> 0]

\* ------------------------------------------------------------------------
\* Program constants (hours)
\* ------------------------------------------------------------------------
HoursPerDay == 24
AccessTokenHours == 1
RefreshTokenDays == 7
DefaultSessionHours == 24
RememberMeDays == 7
SessionRefreshDays == 7
ResetTokenHours == 1
VerificationTokenHours == 24

\* ------------------------------------------------------------------------
\* State
\* ------------------------------------------------------------------------
VARIABLES users, sessions, issued, now, ticks, nonce, last, assignment,
          generated, inflight

vars ==
  <<users, sessions, issued, now, ticks, nonce, last, assignment, generated,
    inflight>>

UserIds == 1..Len(users)

SessionIds == 1..Len(sessions)

\* The result of the last call.  For an AuthService call: success, message,
\* the user of the response (0: none) and the issued token pair (as a set of
\* at most one issuance).  For the middleware: the status and the error and
\* message it answered (status 200 stands for next()), and the user and
\* session it attached to the request (0: none).
Result(op, ok, status, error, message, userId, sessionId, tokens) ==
  [op |-> op, success |-> ok, status |-> status, error |-> error,
   message |-> message, userId |-> userId, sessionId |-> sessionId,
   tokens |-> tokens]

ServiceResult(op, ok, message) == Result(op, ok, 0, "", message, 0, 0, {})

AuthResponse(op, message, userId, tokens) ==
  Result(op, TRUE, 0, "", message, userId, 0, {tokens})

Rejected(status, error, message) ==
  Result("authenticate", FALSE, status, error, message, 0, 0, {})

Idle == ServiceResult("none", TRUE, "")

\* A request in flight: a call of a handler that has reached an await and
\* has not resumed.  It holds the request, the ids and the entity the
\* handler loaded (as a sequence of at most one row), and, once the handler
\* has answered, its result.
NoRequest ==
  [op |-> "none", pc |-> "free", input |-> <<>>, id |-> 0, sessionId |-> 0,
   loaded |-> <<>>, result |-> Idle]

NoRequests == [r \in 1..MaxInflight |-> NoRequest]

awaiting(op, pc, data, id, sessionId, entity) ==
  [op |-> op, pc |-> pc, input |-> <<data>>, id |-> id,
   sessionId |-> sessionId, loaded |-> <<entity>>, result |-> Idle]

answered(op, data, id, sessionId, result) ==
  [op |-> op, pc |-> "done", input |-> <<data>>, id |-> id,
   sessionId |-> sessionId, loaded |-> <<>>, result |-> result]

\* ------------------------------------------------------------------------
\* User entity
\* ------------------------------------------------------------------------
normalizeEmail(e) == trim(toLowerCase(e))

\* @BeforeInsert/@BeforeUpdate hashPassword: hashes whatever the password
\* column holds, on every insert and on every update of the row.
hashPassword(u) == [u EXCEPT !.password = bcryptHash(@)]

\* validatePassword answering true whatever the text (C4 fails under it).
validateUserPasswordAlways(u, text) == TRUE

validateUserPassword(u, text) == bcryptCompare(text, u.password)

\* generatePasswordResetToken giving the token the 24 hours of a
\* verification token (C19 fails under it).
generatePasswordResetTokenDay(u, token) ==
  [u EXCEPT !.passwordResetToken = bcryptHash(Plain(token)),
            !.passwordResetExpires = now + VerificationTokenHours]

generatePasswordResetToken(u, token) ==
  [u EXCEPT !.passwordResetToken = bcryptHash(Plain(token)),
            !.passwordResetExpires = now + ResetTokenHours]

generateEmailVerificationToken(u, token) ==
  [u EXCEPT !.emailVerificationToken = bcryptHash(Plain(token)),
            !.emailVerificationExpires = now + VerificationTokenHours]

NewUser(email, username, password, role, verified) ==
  [email |-> email, username |-> username, password |-> Plain(password),
   role |-> role, isActive |-> TRUE, isEmailVerified |-> verified,
   emailVerificationToken |-> NoHash, emailVerificationExpires |-> Null,
   passwordResetToken |-> NoHash, passwordResetExpires |-> Null,
   lastLoginAt |-> Null]

\* DatabaseManager.createDefaultAdmin: the row the server starts with.
DefaultAdmin ==
  hashPassword(NewUser(normalizeEmail(AdminEmail), AdminUsername,
                       AdminPassword, "admin", TRUE))

\* ------------------------------------------------------------------------
\* Session entity
\* ------------------------------------------------------------------------
\* isExpired with the comparison turned into >= (C2 fails under it).
isExpiredInclusive(s, t) == t >= s.expiresAt

isExpired(s, t) == t > s.expiresAt

isRefreshTokenExpired(s, t) ==
  IF s.refreshTokenExpiresAt # Null THEN t > s.refreshTokenExpiresAt ELSE TRUE

isValid(s, t) == s.isActive /\ ~isExpired(s, t) /\ s.revokedAt = Null

canRefresh(s, t) ==
  s.isActive /\ ~isRefreshTokenExpired(s, t) /\ s.revokedAt = Null

revoke(s, reason, by) ==
  [s EXCEPT !.isActive = FALSE, !.revokedAt = now,
            !.revokedBy = IF by = "" THEN "system" ELSE by,
            !.revokedReason = IF reason = "" THEN "Session revoked" ELSE reason]

updateLastAccessed(s) == [s EXCEPT !.lastAccessedAt = now]

\* extend moving the expiry whatever the state of the session (C33 fails
\* under it).
extendAlways(s, hours) == [s EXCEPT !.expiresAt = now + hours]

extend(s, hours) ==
  IF isValid(s, now)
    THEN [s EXCEPT !.expiresAt = now + hours]
    ELSE s

\* createSession dropping its expirationHours argument, so that the entity's
\* default of 24 hours applies (C5 fails under it).
createSessionDefaultExpiry(userId, expirationHours) ==
  [userId |-> userId, expiresAt |-> now + DefaultSessionHours,
   refreshTokenExpiresAt |-> now + SessionRefreshDays * HoursPerDay,
   isActive |-> TRUE, lastAccessedAt |-> Null, revokedAt |-> Null,
   revokedBy |-> "", revokedReason |-> ""]

\* AuthService.createSession followed by the @BeforeInsert hook
\* Session.generateTokens (the refresh expiry is not supplied).
createSession(userId, expirationHours) ==
  [userId |-> userId, expiresAt |-> now + expirationHours,
   refreshTokenExpiresAt |-> now + SessionRefreshDays * HoursPerDay,
   isActive |-> TRUE, lastAccessedAt |-> Null, revokedAt |-> Null,
   revokedBy |-> "", revokedReason |-> ""]

\* The bulk revoke without the userId condition (C9 fails under it).
revokeAllActive(ss, userId, reason) ==
  [i \in 1..Len(ss) |->
     IF ss[i].isActive
       THEN [ss[i] EXCEPT !.isActive = FALSE, !.revokedAt = now,
                          !.revokedReason = reason, !.revokedBy = "user"]
       ELSE ss[i]]

\* sessionRepository.update({userId, isActive: true}, {...}): bulk revoke.
revokeAllForUser(ss, userId, reason) ==
  [i \in 1..Len(ss) |->
     IF ss[i].userId = userId /\ ss[i].isActive
       THEN [ss[i] EXCEPT !.isActive = FALSE, !.revokedAt = now,
                          !.revokedReason = reason, !.revokedBy = "user"]
       ELSE ss[i]]

\* ------------------------------------------------------------------------
\* JWTService.  A token is its payload, its expiry and whether its signature
\* verifies under the server's secret.  An absent claim is "" (<<>> for the
\* email).
\* ------------------------------------------------------------------------
generateAccessToken(userId, email, role, sessionId, iat) ==
  [userId |-> userId, email |-> email, role |-> role, sessionId |-> sessionId,
   type |-> "", exp |-> iat + AccessTokenHours, signed |-> TRUE]

generateRefreshToken(userId, sessionId, iat) ==
  [userId |-> userId, email |-> <<>>, role |-> "", sessionId |-> sessionId,
   type |-> "refresh", exp |-> iat + RefreshTokenDays * HoursPerDay,
   signed |-> TRUE]

\* jwt.verify: the signature first, then the expiry (exp <= clock fails).
jwtVerify(t, clock) ==
  IF ~t.signed THEN "JsonWebTokenError"
  ELSE IF clock >= t.exp THEN "TokenExpiredError"
  ELSE "ok"

hasAccessClaims(t) == t.email # <<>> /\ t.role # ""

\* The error verifyAccessToken throws, as [message, code]; "ok" when it
\* returns the payload.  The payload-structure error is a plain Error and
\* carries no code.
verifyAccessToken(t, clock) ==
  CASE jwtVerify(t, clock) = "TokenExpiredError" ->
         [message |-> "Token expired", code |-> "TOKEN_EXPIRED"]
    [] jwtVerify(t, clock) = "JsonWebTokenError" ->
         [message |-> "Invalid token", code |-> "INVALID_TOKEN"]
    [] jwtVerify(t, clock) = "ok" /\ ~hasAccessClaims(t) ->
         [message |-> "Invalid token payload structure", code |-> ""]
    [] OTHER -> [message |-> "ok", code |-> ""]

\* verifyRefreshToken without the comparison of the type claim (C26, in
\* either form, fails under it).
verifyRefreshTokenAnyType(t, clock) ==
  CASE jwtVerify(t, clock) = "TokenExpiredError" ->
         [message |-> "Refresh token expired", code |-> "REFRESH_TOKEN_EXPIRED"]
    [] jwtVerify(t, clock) = "JsonWebTokenError" ->
         [message |-> "Invalid refresh token", code |-> "INVALID_REFRESH_TOKEN"]
    [] OTHER -> [message |-> "ok", code |-> ""]

verifyRefreshToken(t, clock) ==
  CASE jwtVerify(t, clock) = "TokenExpiredError" ->
         [message |-> "Refresh token expired", code |-> "REFRESH_TOKEN_EXPIRED"]
    [] jwtVerify(t, clock) = "JsonWebTokenError" ->
         [message |-> "Invalid refresh token", code |-> "INVALID_REFRESH_TOKEN"]
    [] jwtVerify(t, clock) = "ok" /\ t.type # "refresh" ->
         [message |-> "Invalid refresh token", code |-> "INVALID_REFRESH_TOKEN"]
    [] OTHER -> [message |-> "ok", code |-> ""]

\* generateTokens putting the user's id where the session's id belongs
\* (C6 fails under it).
generateTokensUserAsSession(userId, user, sessionId) ==
  [userId |-> userId, email |-> user.email, role |-> user.role,
   sessionId |-> userId, iat |-> now]

\* AuthService.generateTokens: one issuance is an access token and a
\* refresh token for the same user and session, signed at the same instant.
generateTokens(userId, user, sessionId) ==
  [userId |-> userId, email |-> user.email, role |-> user.role,
   sessionId |-> sessionId, iat |-> now]

AccessOf(i) == generateAccessToken(i.userId, i.email, i.role, i.sessionId, i.iat)

RefreshOf(i) == generateRefreshToken(i.userId, i.sessionId, i.iat)

\* What a client can present: the tokens the server has issued and the same
\* tokens under a signature that does not verify.
IssuedTokens == {AccessOf(i) : i \in issued} \cup {RefreshOf(i) : i \in issued}

Forged(t) == [t EXCEPT !.signed = FALSE]

PresentableTokens == IssuedTokens \cup {Forged(t) : t \in IssuedTokens}

\* Authorization headers, split at the blanks: none at all, a header of a
\* single word, another scheme, or "Bearer <token>".
Headers ==
  {<<>>, <<"Bearer">>}
    \cup {<<"Bearer", t>> : t \in PresentableTokens}
    \cup {<<"Basic", t>> : t \in IssuedTokens}

\* The token as a sequence of at most one element: <<>> stands for null.
extractTokenFromHeader(h) ==
  IF h = <<>> THEN <<>>
  ELSE IF Len(h) # 2 \/ h[1] # "Bearer" THEN <<>>
  ELSE <<h[2]>>

\* ------------------------------------------------------------------------
\* Repository (TypeORM) behaviour the handlers rely on
\* ------------------------------------------------------------------------
\* A property assigned undefined: save() skips it and the column keeps its
\* stored value.
UndefinedHash == [plain |-> 0, depth |-> -1]

UndefinedTime == -2

\* userRepository.save(entity) of a loaded row: the @BeforeUpdate hooks run
\* (hashPassword, normalizeEmail), then every defined column is written.
saveUser(row, entity) ==
  LET e == [hashPassword(entity) EXCEPT !.email = normalizeEmail(@)]
  IN [e EXCEPT
        !.passwordResetToken =
           IF @ = UndefinedHash THEN row.passwordResetToken ELSE @,
        !.passwordResetExpires =
           IF @ = UndefinedTime THEN row.passwordResetExpires ELSE @,
        !.emailVerificationToken =
           IF @ = UndefinedHash THEN row.emailVerificationToken ELSE @,
        !.emailVerificationExpires =
           IF @ = UndefinedTime THEN row.emailVerificationExpires ELSE @]

\* userRepository.save(entity) of a new row: the @BeforeInsert hooks run.
insertUser(entity) == [hashPassword(entity) EXCEPT !.email = normalizeEmail(@)]

\* The user lookup without the isActive condition (C3 fails under it).
activeUserAnyState(userId) == userId \in UserIds

activeUser(userId) == userId \in UserIds /\ users[userId].isActive

\* sessionRepository.findOne({id, userId, isActive: true}) finds a row.
activeSession(sessionId, userId) ==
  /\ sessionId \in SessionIds
  /\ sessions[sessionId].userId = userId
  /\ sessions[sessionId].isActive

\* ------------------------------------------------------------------------
\* CoachTraineeAssignment entity
\* ------------------------------------------------------------------------
\* The notes text is kept as the sequence of the entries it was built from:
\* `${notes}\n${entry}` appends an entry, a text of no entries is the empty
\* (or absent) text.  A transition's entry is <tag> <reason>; addNote's is
\* [<timestamp>] <author>: <note>.  The empty string stands for an argument
\* that is absent or empty (both are falsy).
NoteEntry(tag, at, author, text) ==
  [tag |-> tag, at |-> at, author |-> author, text |-> text]

\* this.notes ? `${this.notes}\n${entry}` : entry
appendEntry(notes, entry) == Append(notes, entry)

\* satisfactionRating in thousandths; NaN is the number that is not one.
NaN == -2

\* The row as created: column defaults, assigned at the hour 0.
NewAssignment ==
  [status |-> "active", assignedAt |-> 0, endedAt |-> Null,
   pausedAt |-> Null, resumedAt |-> Null, isActive |-> TRUE,
   notes |-> <<>>, terminationReason |-> "", terminatedBy |-> "",
   totalSessions |-> 0, completedSessions |-> 0, lastInteractionAt |-> Null,
   satisfactionRating |-> Null, clientFeedback |-> "",
   preferences |-> {}, goals |-> {}]

\* get duration(): whole days from assignedAt to endedAt, null while the
\* assignment has not ended.
duration(a) ==
  IF a.endedAt = Null
    THEN Null
    ELSE (a.endedAt - a.assignedAt) \div HoursPerDay

\* get sessionCompletionRate(), in thousandths of a percent.
sessionCompletionRate(a) ==
  IF a.totalSessions = 0
    THEN 0
    ELSE (a.completedSessions * 100000) \div a.totalSessions

\* What a method call leaves: the object, and the message of the Error it
\* threw ("" when it returned).
Returned(a) == [assignment |-> a, error |-> ""]

Threw(a, message) == [assignment |-> a, error |-> message]

\* pause doing nothing, and returning, when the assignment is not active
\* (C23 fails under it).
pauseOutcomeSilent(a, reason) ==
  IF a.status # "active"
    THEN Returned(a)
    ELSE Returned([a EXCEPT
           !.status = "paused", !.pausedAt = now, !.isActive = FALSE,
           !.notes = IF reason # ""
                       THEN appendEntry(@, NoteEntry("[PAUSED]", Null, "", reason))
                       ELSE @])

pauseOutcome(a, reason) ==
  IF a.status # "active"
    THEN Threw(a, "Can only pause active assignments")
    ELSE Returned([a EXCEPT
           !.status = "paused", !.pausedAt = now, !.isActive = FALSE,
           !.notes = IF reason # ""
                       THEN appendEntry(@, NoteEntry("[PAUSED]", Null, "", reason))
                       ELSE @])

\* resume that does not look at the status (C22 fails under it).
resumeOutcomeAnyStatus(a, reason) ==
  Returned([a EXCEPT
    !.status = "active", !.resumedAt = now, !.isActive = TRUE,
    !.notes = IF reason # ""
                THEN appendEntry(@, NoteEntry("[RESUMED]", Null, "", reason))
                ELSE @])

resumeOutcome(a, reason) ==
  IF a.status # "paused"
    THEN Threw(a, "Can only resume paused assignments")
    ELSE Returned([a EXCEPT
           !.status = "active", !.resumedAt = now, !.isActive = TRUE,
           !.notes = IF reason # ""
                       THEN appendEntry(@, NoteEntry("[RESUMED]", Null, "", reason))
                       ELSE @])

\* complete leaving isActive as it was (C38 fails under it).
completeOutcomeStillActive(a, reason, completedBy) ==
  IF ~arrayIncludes(<<"active", "paused">>, a.status)
    THEN Threw(a, "Can only complete active or paused assignments")
    ELSE Returned([a EXCEPT
           !.status = "completed", !.endedAt = now,
           !.terminatedBy = completedBy,
           !.terminationReason = IF reason # "" THEN reason ELSE @,
           !.notes = IF reason # ""
                       THEN appendEntry(@, NoteEntry("[COMPLETED]", Null, "", reason))
                       ELSE @])

completeOutcome(a, reason, completedBy) ==
  IF ~arrayIncludes(<<"active", "paused">>, a.status)
    THEN Threw(a, "Can only complete active or paused assignments")
    ELSE Returned([a EXCEPT
           !.status = "completed", !.endedAt = now, !.isActive = FALSE,
           !.terminatedBy = completedBy,
           !.terminationReason = IF reason # "" THEN reason ELSE @,
           !.notes = IF reason # ""
                       THEN appendEntry(@, NoteEntry("[COMPLETED]", Null, "", reason))
                       ELSE @])

\* terminate that does not stamp endedAt (C39 fails under it).
terminateOutcomeNoEnd(a, reason, terminatedBy) ==
  IF a.status = "terminated"
    THEN Threw(a, "Assignment is already terminated")
    ELSE Returned([a EXCEPT
           !.status = "terminated", !.isActive = FALSE,
           !.terminationReason = reason, !.terminatedBy = terminatedBy,
           !.notes = appendEntry(@, NoteEntry("[TERMINATED]", Null, "", reason))])

\* terminate writing its note only when a reason is given, as the other
\* transitions do (C24, as amended, fails under it).
terminateOutcomeQuiet(a, reason, terminatedBy) ==
  IF a.status = "terminated"
    THEN Threw(a, "Assignment is already terminated")
    ELSE Returned([a EXCEPT
           !.status = "terminated", !.endedAt = now, !.isActive = FALSE,
           !.terminationReason = reason, !.terminatedBy = terminatedBy,
           !.notes = IF reason # ""
                       THEN appendEntry(@, NoteEntry("[TERMINATED]", Null, "", reason))
                       ELSE @])

terminateOutcome(a, reason, terminatedBy) ==
  IF a.status = "terminated"
    THEN Threw(a, "Assignment is already terminated")
    ELSE Returned([a EXCEPT
           !.status = "terminated", !.endedAt = now, !.isActive = FALSE,
           !.terminationReason = reason, !.terminatedBy = terminatedBy,
           !.notes = appendEntry(@, NoteEntry("[TERMINATED]", Null, "", reason))])

updateLastInteractionOf(a) == [a EXCEPT !.lastInteractionAt = now]

incrementSessionCountOutcome(a) ==
  Returned([a EXCEPT !.totalSessions = @ + 1])

completeSessionOutcome(a) ==
  Returned(updateLastInteractionOf([a EXCEPT !.completedSessions = @ + 1]))

\* addNote replacing the notes by the new entry (C25 fails under it).
addNoteOutcomeOverwrite(a, note, author) ==
  Returned([a EXCEPT !.notes = <<NoteEntry("note", now, author, note)>>])

addNoteOutcome(a, note, author) ==
  Returned([a EXCEPT
    !.notes = appendEntry(@, NoteEntry("note", now, author, note))])

\* A key-value map as the set of its <<key, value>> pairs.
upsert(map, key, value) ==
  {kv \in map : kv[1] # key} \cup {<<key, value>>}

setPreferenceOutcome(a, key, value) ==
  Returned([a EXCEPT !.preferences = upsert(@, key, value)])

setGoalOutcome(a, key, value) ==
  Returned([a EXCEPT !.goals = upsert(@, key, value)])

\* The thousandths whose nearest double lies below the decimal value, among
\* those ending in 5: 1.005 is 1.00499999999999989..., and is rounded down.
BelowHalf == {1005}

\* Number(rating.toFixed(2)), in thousandths: the multiple of ten nearest
\* to the double; of two equally near (2.125 is a double) the larger.
toFixed2(rating) ==
  IF rating = NaN THEN NaN
  ELSE IF (rating % 10) < 5 \/ ((rating % 10) = 5 /\ rating \in BelowHalf)
    THEN rating - (rating % 10)
    ELSE rating - (rating % 10) + 10

\* x < y on numbers: false whenever one of them is NaN.
lessThan(x, y) == x # NaN /\ y # NaN /\ x < y

setSatisfactionRatingOutcome(a, rating, feedback) ==
  IF lessThan(rating, 1000) \/ lessThan(5000, rating)
    THEN Threw(a, "Rating must be between 1 and 5")
    ELSE Returned([a EXCEPT
           !.satisfactionRating = toFixed2(rating),
           !.clientFeedback = IF feedback # "" THEN feedback ELSE @])

\* A call of a method on the loaded assignment: the caller sees the return
\* or the Error.
call(op, outcome) ==
  /\ last = Idle
  /\ assignment' = outcome.assignment
  /\ last' = IF outcome.error = ""
               THEN Result(op, TRUE, 0, "", "", 0, 0, {})
               ELSE Result(op, FALSE, 0, outcome.error, "", 0, 0, {})
  /\ UNCHANGED <<users, sessions, issued, now, ticks, nonce>>

pause(reason) == call("pause", pauseOutcome(assignment, reason))

resume(reason) == call("resume", resumeOutcome(assignment, reason))

complete(reason, completedBy) ==
  call("complete", completeOutcome(assignment, reason, completedBy))

terminate(reason, terminatedBy) ==
  call("terminate", terminateOutcome(assignment, reason, terminatedBy))

incrementSessionCount ==
  call("incrementSessionCount", incrementSessionCountOutcome(assignment))

completeSession ==
  call("completeSession", completeSessionOutcome(assignment))

addNote(note, author) ==
  call("addNote", addNoteOutcome(assignment, note, author))

setPreference(key, value) ==
  call("setPreference", setPreferenceOutcome(assignment, key, value))

setGoal(key, value) ==
  call("setGoal", setGoalOutcome(assignment, key, value))

setSatisfactionRating(rating, feedback) ==
  call("setSatisfactionRating",
       setSatisfactionRatingOutcome(assignment, rating, feedback))

\* ------------------------------------------------------------------------
\* A call of PasswordService.generateRandomPassword: the length asked for
\* and the password returned.
\* ------------------------------------------------------------------------
NoPassword == [length |-> 0, password |-> <<>>]

generate ==
  /\ last = Idle
  /\ generated.password = <<>>
  /\ \E password \in generateRandomPassword(generated.length) :
       generated' = [generated EXCEPT !.password = password]
  /\ last' = Result("generateRandomPassword", TRUE, 0, "", "", 0, 0, {})
  /\ UNCHANGED <<users, sessions, issued, now, ticks, nonce, assignment,
                 inflight>>

\* ------------------------------------------------------------------------
\* Initial state: the database after DatabaseManager's initial setup.
\* ------------------------------------------------------------------------
Init ==
  /\ users = <<DefaultAdmin>>
  /\ sessions = <<>>
  /\ issued = {}
  /\ now = 0
  /\ ticks = 0
  /\ nonce = 0
  /\ last = Idle
  /\ assignment = NewAssignment
  /\ generated = NoPassword
  /\ inflight = NoRequests

\* ------------------------------------------------------------------------
\* middleware/auth.ts: authenticate
\* ------------------------------------------------------------------------
\* authenticate without the session lookup (C1 fails under it).
authenticateOutcomeNoSession(h) ==
  LET token == extractTokenFromHeader(h)
  IN IF token = <<>>
       THEN Rejected(401, "Authentication required", "No token provided")
     ELSE IF verifyAccessToken(token[1], now).message # "ok"
       THEN Rejected(401, "Invalid token",
                     verifyAccessToken(token[1], now).message)
     ELSE IF ~activeUser(token[1].userId)
       THEN Rejected(401, "User not found",
                     "User account may have been disabled or deleted")
     ELSE Result("authenticate", TRUE, 200, "", "",
                 token[1].userId, token[1].sessionId, {})

authenticateOutcome(h) ==
  LET token == extractTokenFromHeader(h)
  IN IF token = <<>>
       THEN Rejected(401, "Authentication required", "No token provided")
     ELSE IF verifyAccessToken(token[1], now).message # "ok"
       THEN Rejected(401, "Invalid token",
                     verifyAccessToken(token[1], now).message)
     ELSE IF ~activeUser(token[1].userId)
       THEN Rejected(401, "User not found",
                     "User account may have been disabled or deleted")
     ELSE IF \/ ~activeSession(token[1].sessionId, token[1].userId)
             \/ ~isValid(sessions[token[1].sessionId], now)
       THEN Rejected(401, "Invalid session",
                     "Session has expired or been revoked")
     ELSE Result("authenticate", TRUE, 200, "", "",
                 token[1].userId, token[1].sessionId, {})

authenticate(h) ==
  /\ last = Idle
  /\ last' = authenticateOutcome(h)
  /\ sessions' =
       IF authenticateOutcome(h).success
         THEN [sessions EXCEPT ![h[2].sessionId] = updateLastAccessed(@)]
         ELSE sessions
  /\ UNCHANGED <<users, issued, now, ticks, nonce>>

\* ------------------------------------------------------------------------
\* middleware/auth.ts: requireRole, requireAdmin, requireCoach
\* ------------------------------------------------------------------------
UserRole == {"admin", "coach", "client"}

\* req.user as the gate sees it: the user authenticate attached before it
\* called next, or nothing when authenticate did not run for the request.
reqUser(req) ==
  IF req.op = "authenticate" /\ req.success
    THEN <<users[req.userId]>>
    ELSE <<>>

\* requireRole without the comparison of the role (C20 fails under it).
requireRoleOutcomeAnyRole(roles, req) ==
  IF Len(reqUser(req)) = 0
    THEN Result("requireRole", FALSE, 401, "Authentication required",
                "User not authenticated", 0, 0, {})
    ELSE Result("requireRole", TRUE, 200, "", "",
                req.userId, req.sessionId, {})

\* roles is the allow-list after Array.isArray(roles) ? roles : [roles]: a
\* single role is the list of that one role.
requireRoleOutcome(roles, req) ==
  IF Len(reqUser(req)) = 0
    THEN Result("requireRole", FALSE, 401, "Authentication required",
                "User not authenticated", 0, 0, {})
  ELSE IF ~arrayIncludes(roles, reqUser(req)[1].role)
    THEN Result("requireRole", FALSE, 403, "Insufficient permissions",
                "Required role: " \o join(roles, " or "), 0, 0, {})
  ELSE Result("requireRole", TRUE, 200, "", "",
              req.userId, req.sessionId, {})

\* The gate runs first in a request (last = Idle: nothing attached) or right
\* after authenticate called next.
requireRole(roles) ==
  /\ \/ last = Idle
     \/ last.op = "authenticate" /\ last.success
  /\ last' = requireRoleOutcome(roles, last)
  /\ UNCHANGED <<users, sessions, issued, now, ticks, nonce>>

requireAdmin == requireRole(<<"admin">>)

requireCoach == requireRole(<<"admin", "coach">>)

\* ------------------------------------------------------------------------
\* middleware/auth.ts: optionalAuth
\* ------------------------------------------------------------------------
\* optionalAuth always calls next: without a token, with a token whose
\* verification throws (the inner catch ignores it), and with a verified
\* token, where req.user is the active user of the payload, if there is
\* one.  It reads no session.  userId is the user attached (0: none).
optionalAuthOutcome(h) ==
  LET token == extractTokenFromHeader(h)
  IN IF token = <<>>
       THEN Result("optionalAuth", TRUE, 200, "", "", 0, 0, {})
     ELSE IF verifyAccessToken(token[1], now).message # "ok"
       THEN Result("optionalAuth", TRUE, 200, "", "", 0, 0, {})
     ELSE IF activeUser(token[1].userId)
       THEN Result("optionalAuth", TRUE, 200, "", "", token[1].userId, 0, {})
     ELSE Result("optionalAuth", TRUE, 200, "", "", 0, 0, {})

optionalAuth(h) ==
  /\ last = Idle
  /\ last' = optionalAuthOutcome(h)
  /\ UNCHANGED <<users, sessions, issued, now, ticks, nonce>>

\* ------------------------------------------------------------------------
\* AuthService
\* ------------------------------------------------------------------------
usersByEmail(email) == {u \in UserIds : users[u].email = email}

\* findOne({where: [{email}, {username}]}): the rows either condition
\* matches; the query has no ORDER BY, so any one of them may be returned.
registerMatches(data) ==
  {u \in UserIds : \/ users[u].email = trim(toLowerCase(data.email))
                   \/ users[u].username = data.username}

registerConflictMessage(existingUser, data) ==
  IF existingUser.email = trim(toLowerCase(data.email))
    THEN "Email already registered"
    ELSE "Username already taken"

register(data) ==
  /\ last = Idle
  /\   \/ \E u \in registerMatches(data) :
            /\ last' = ServiceResult("register", FALSE,
                                     registerConflictMessage(users[u], data))
            /\ UNCHANGED <<users, sessions, issued, now, ticks, nonce>>
       \/ /\ registerMatches(data) = {}
          /\ ~validatePassword(data.password).isValid
          /\ last' = ServiceResult("register", FALSE,
                                   join(validatePassword(data.password).errors, ", "))
          /\ UNCHANGED <<users, sessions, issued, now, ticks, nonce>>
       \/ /\ registerMatches(data) = {}
          /\ validatePassword(data.password).isValid
          /\ Len(users) < MaxUsers
          /\ Len(sessions) < MaxSessions
          /\ Cardinality(issued) < MaxIssued
          /\ LET savedUser ==
                   insertUser(generateEmailVerificationToken(
                     NewUser(trim(toLowerCase(data.email)), data.username,
                             data.password, "client", FALSE),
                     nonce + 1))
                 id == Len(users) + 1
                 tokens == generateTokens(id, savedUser, Len(sessions) + 1)
             IN /\ nonce' = nonce + 1
                /\ users' = Append(users, savedUser)
                /\ sessions' = Append(sessions,
                                      createSession(id, DefaultSessionHours))
                /\ issued' = issued \cup {tokens}
                /\ last' = AuthResponse("register",
                     "Registration successful. Please check your email to verify your account.",
                     id, tokens)
          /\ UNCHANGED <<now, ticks>>

login(data) ==
  /\ last = Idle
  /\ LET found == usersByEmail(trim(toLowerCase(data.email)))
       IN
       \/ /\ \A u \in found : ~users[u].isActive
          /\ last' = ServiceResult("login", FALSE, "Invalid email or password")
          /\ UNCHANGED <<users, sessions, issued, now, ticks, nonce>>
       \/ \E u \in found :
            /\ users[u].isActive
            /\ ~validateUserPassword(users[u], data.password)
            /\ last' = ServiceResult("login", FALSE, "Invalid email or password")
            /\ UNCHANGED <<users, sessions, issued, now, ticks, nonce>>
       \/ \E u \in found :
            /\ users[u].isActive
            /\ validateUserPassword(users[u], data.password)
            /\ Len(sessions) < MaxSessions
            /\ Cardinality(issued) < MaxIssued
            /\ LET saved == saveUser(users[u], [users[u] EXCEPT !.lastLoginAt = now])
                   tokens == generateTokens(u, saved, Len(sessions) + 1)
               IN /\ users' = [users EXCEPT ![u] = saved]
                  /\ sessions' = Append(sessions,
                       createSession(u, IF data.rememberMe
                                          THEN RememberMeDays * HoursPerDay
                                          ELSE DefaultSessionHours))
                  /\ issued' = issued \cup {tokens}
                  /\ last' = AuthResponse("login", "Login successful", u, tokens)
            /\ UNCHANGED <<now, ticks, nonce>>

\* logout revoking every session of the named session's owner (C8 fails
\* under it).
logoutOwner(sessionId) ==
  /\ last = Idle
  /\ sessions' =
       IF sessionId \in SessionIds
         THEN [i \in SessionIds |->
                 IF sessions[i].userId = sessions[sessionId].userId
                   THEN revoke(sessions[i], "User logout", "")
                   ELSE sessions[i]]
         ELSE sessions
  /\ last' = ServiceResult("logout", TRUE, "Logged out successfully")
  /\ UNCHANGED <<users, issued, now, ticks, nonce>>

logout(sessionId) ==
  /\ last = Idle
  /\ sessions' =
       IF sessionId \in SessionIds
         THEN [sessions EXCEPT ![sessionId] = revoke(@, "User logout", "")]
         ELSE sessions
  /\ last' = ServiceResult("logout", TRUE, "Logged out successfully")
  /\ UNCHANGED <<users, issued, now, ticks, nonce>>

logoutAll(userId) ==
  /\ last = Idle
  /\ sessions' = revokeAllForUser(sessions, userId, "User logout all sessions")
  /\ last' = ServiceResult("logoutAll", TRUE,
                           "All sessions logged out successfully")
  /\ UNCHANGED <<users, issued, now, ticks, nonce>>

\* A throw of verifyRefreshToken lands in refreshToken's catch block.
refreshTokenOutcome(t) ==
  IF verifyRefreshToken(t, now).message # "ok"
    THEN ServiceResult("refreshToken", FALSE, "Token refresh failed")
  ELSE IF \/ ~activeUser(t.userId)
          \/ ~activeSession(t.sessionId, t.userId)
          \/ ~canRefresh(sessions[t.sessionId], now)
    THEN ServiceResult("refreshToken", FALSE,
                       "Invalid or expired refresh token")
  ELSE AuthResponse("refreshToken", "Token refreshed successfully", t.userId,
                    generateTokens(t.userId, users[t.userId], t.sessionId))

\* refreshToken extending the session by 24 hours on success (C10 fails
\* under it).
refreshTokenExtending(t) ==
  /\ last = Idle
  /\ refreshTokenOutcome(t).success =>
       \/ Cardinality(issued) < MaxIssued
       \/ refreshTokenOutcome(t).tokens \subseteq issued
  /\ last' = refreshTokenOutcome(t)
  /\ issued' = issued \cup refreshTokenOutcome(t).tokens
  /\ sessions' =
       IF refreshTokenOutcome(t).success
         THEN [sessions EXCEPT ![t.sessionId].expiresAt =
                                  now + DefaultSessionHours]
         ELSE sessions
  /\ UNCHANGED <<users, now, ticks, nonce>>

refreshToken(t) ==
  /\ last = Idle
  /\ refreshTokenOutcome(t).success =>
       \/ Cardinality(issued) < MaxIssued
       \/ refreshTokenOutcome(t).tokens \subseteq issued
  /\ last' = refreshTokenOutcome(t)
  /\ issued' = issued \cup refreshTokenOutcome(t).tokens
  /\ UNCHANGED <<users, sessions, now, ticks, nonce>>

\* changePassword answering success without saving the new password (C14
\* fails under it).
changePasswordNoSave(userId, data) ==
  /\ last = Idle
  /\   \/ /\ userId \notin UserIds
          /\ last' = ServiceResult("changePassword", FALSE, "User not found")
          /\ UNCHANGED <<users, sessions, issued, now, ticks, nonce>>
       \/ /\ userId \in UserIds
          /\ ~validateUserPassword(users[userId], data.currentPassword)
          /\ last' = ServiceResult("changePassword", FALSE,
                                   "Current password is incorrect")
          /\ UNCHANGED <<users, sessions, issued, now, ticks, nonce>>
       \/ /\ userId \in UserIds
          /\ validateUserPassword(users[userId], data.currentPassword)
          /\ ~validatePassword(data.newPassword).isValid
          /\ last' = ServiceResult("changePassword", FALSE,
                                   join(validatePassword(data.newPassword).errors, ", "))
          /\ UNCHANGED <<users, sessions, issued, now, ticks, nonce>>
       \/ /\ userId \in UserIds
          /\ validateUserPassword(users[userId], data.currentPassword)
          /\ validatePassword(data.newPassword).isValid
          /\ sessions' = revokeAllForUser(sessions, userId, "Password changed")
          /\ last' = ServiceResult("changePassword", TRUE,
                                   "Password changed successfully")
          /\ UNCHANGED <<users, issued, now, ticks, nonce>>

changePassword(userId, data) ==
  /\ last = Idle
  /\   \/ /\ userId \notin UserIds
          /\ last' = ServiceResult("changePassword", FALSE, "User not found")
          /\ UNCHANGED <<users, sessions, issued, now, ticks, nonce>>
       \/ /\ userId \in UserIds
          /\ ~validateUserPassword(users[userId], data.currentPassword)
          /\ last' = ServiceResult("changePassword", FALSE,
                                   "Current password is incorrect")
          /\ UNCHANGED <<users, sessions, issued, now, ticks, nonce>>
       \/ /\ userId \in UserIds
          /\ validateUserPassword(users[userId], data.currentPassword)
          /\ ~validatePassword(data.newPassword).isValid
          /\ last' = ServiceResult("changePassword", FALSE,
                                   join(validatePassword(data.newPassword).errors, ", "))
          /\ UNCHANGED <<users, sessions, issued, now, ticks, nonce>>
       \/ /\ userId \in UserIds
          /\ validateUserPassword(users[userId], data.currentPassword)
          /\ validatePassword(data.newPassword).isValid
          /\ users' = [users EXCEPT ![userId] =
               saveUser(@, [@ EXCEPT !.password = Plain(data.newPassword)])]
          /\ sessions' = revokeAllForUser(sessions, userId, "Password changed")
          /\ last' = ServiceResult("changePassword", TRUE,
                                   "Password changed successfully")
          /\ UNCHANGED <<issued, now, ticks, nonce>>

forgotPassword(data) ==
  /\ last = Idle
  /\ LET found == usersByEmail(trim(toLowerCase(data.email)))
       IN
       \/ /\ found = {}
          /\ last' = ServiceResult("forgotPassword", TRUE,
               "If the email exists, a password reset link has been sent")
          /\ UNCHANGED <<users, sessions, issued, now, ticks, nonce>>
       \/ \E u \in found :
            /\ users[u].password.depth < MaxRehash
            /\ nonce' = nonce + 1
            /\ users' = [users EXCEPT ![u] =
                 saveUser(@, generatePasswordResetToken(@, nonce + 1))]
            /\ last' = ServiceResult("forgotPassword", TRUE,
                 "If the email exists, a password reset link has been sent")
            /\ UNCHANGED <<sessions, issued, now, ticks>>

\* createQueryBuilder().where('passwordResetExpires > :now').getOne(): the
\* query names no token and no order, so it returns any one matching row.
resetCandidates == {u \in UserIds : users[u].passwordResetExpires > now}

\* resetPassword can accept the token: a row the query may return holds a
\* reset-token hash that verifies it.
resetAccepts(token) ==
  \E u \in resetCandidates :
    /\ users[u].passwordResetToken # NoHash
    /\ bcryptCompare(token, users[u].passwordResetToken)

resetPassword(data) ==
  /\ last = Idle
  /\   \/ /\ ~validatePassword(data.newPassword).isValid
          /\ last' = ServiceResult("resetPassword", FALSE,
                                   join(validatePassword(data.newPassword).errors, ", "))
          /\ UNCHANGED <<users, sessions, issued, now, ticks, nonce>>
       \/ /\ validatePassword(data.newPassword).isValid
          /\ \/ resetCandidates = {}
             \/ \E u \in resetCandidates :
                  \/ users[u].passwordResetToken = NoHash
                  \/ ~bcryptCompare(data.token, users[u].passwordResetToken)
          /\ last' = ServiceResult("resetPassword", FALSE,
                                   "Invalid or expired reset token")
          /\ UNCHANGED <<users, sessions, issued, now, ticks, nonce>>
       \/ /\ validatePassword(data.newPassword).isValid
          /\ \E u \in resetCandidates :
               /\ users[u].passwordResetToken # NoHash
               /\ bcryptCompare(data.token, users[u].passwordResetToken)
               /\ users' = [users EXCEPT ![u] =
                    saveUser(@, [@ EXCEPT !.password = Plain(data.newPassword),
                                          !.passwordResetToken = UndefinedHash,
                                          !.passwordResetExpires = UndefinedTime])]
               /\ sessions' = revokeAllForUser(sessions, u, "Password reset")
          /\ last' = ServiceResult("resetPassword", TRUE,
                                   "Password reset successfully")
          /\ UNCHANGED <<issued, now, ticks, nonce>>

\* createQueryBuilder().where('emailVerificationExpires > :now').getOne():
\* as in resetPassword, any one row with a pending verification.
verifyCandidates == {u \in UserIds : users[u].emailVerificationExpires > now}

verifyEmail(data) ==
  /\ last = Idle
  /\   \/ /\ \/ verifyCandidates = {}
             \/ \E u \in verifyCandidates :
                  \/ users[u].emailVerificationToken = NoHash
                  \/ ~bcryptCompare(data.token, users[u].emailVerificationToken)
          /\ last' = ServiceResult("verifyEmail", FALSE,
                                   "Invalid or expired verification token")
          /\ UNCHANGED <<users, sessions, issued, now, ticks, nonce>>
       \/ /\ \E u \in verifyCandidates :
               /\ users[u].emailVerificationToken # NoHash
               /\ bcryptCompare(data.token, users[u].emailVerificationToken)
               /\ users[u].password.depth < MaxRehash
               /\ users' = [users EXCEPT ![u] =
                    saveUser(@, [@ EXCEPT !.isEmailVerified = TRUE,
                                          !.emailVerificationToken = UndefinedHash,
                                          !.emailVerificationExpires = UndefinedTime])]
          /\ last' = ServiceResult("verifyEmail", TRUE,
                                   "Email verified successfully")
          /\ UNCHANGED <<sessions, issued, now, ticks, nonce>>

\* ------------------------------------------------------------------------
\* AuthService: a storage or token call throwing
\* ------------------------------------------------------------------------

\* A catch block that throws the error on instead of returning (C28 fails
\* under it): the caller gets no result, which the status 500 and the error
\* text stand for.
caughtRethrown(op, message) ==
  Result(op, FALSE, 500, "Error", message, 0, 0, {})

\* The body of every AuthService method is one try block; the catch block
\* logs the error and returns the method's failure message.
caught(op, message) == ServiceResult(op, FALSE, message)

\* register when a call throws: a read, the hashing or the insert of the
\* user (nothing is stored), the insert of the session (the user is
\* stored), or jwt.sign (the user and the session are stored).
registerThrows(data) ==
  /\ last = Idle
  /\ last' = caught("register", "Registration failed. Please try again.")
  /\ \/ UNCHANGED <<users, sessions, nonce>>
     \/ /\ registerMatches(data) = {}
        /\ validatePassword(data.password).isValid
        /\ Len(users) < MaxUsers
        /\ nonce' = nonce + 1
        /\ users' = Append(users,
             insertUser(generateEmailVerificationToken(
               NewUser(trim(toLowerCase(data.email)), data.username,
                       data.password, "client", FALSE),
               nonce + 1)))
        /\ \/ UNCHANGED sessions
           \/ /\ Len(sessions) < MaxSessions
              /\ sessions' = Append(sessions,
                   createSession(Len(users) + 1, DefaultSessionHours))
  /\ UNCHANGED <<issued, now, ticks>>

\* login when a call throws: before the save of the user, at the insert of
\* the session (lastLoginAt is stored), or at jwt.sign.
loginThrows(data) ==
  /\ last = Idle
  /\ last' = caught("login", "Login failed. Please try again.")
  /\ \/ UNCHANGED <<users, sessions>>
     \/ \E u \in usersByEmail(trim(toLowerCase(data.email))) :
          /\ users[u].isActive
          /\ validateUserPassword(users[u], data.password)
          /\ users' = [users EXCEPT ![u] =
               saveUser(@, [@ EXCEPT !.lastLoginAt = now])]
          /\ \/ UNCHANGED sessions
             \/ /\ Len(sessions) < MaxSessions
                /\ sessions' = Append(sessions,
                     createSession(u, IF data.rememberMe
                                        THEN RememberMeDays * HoursPerDay
                                        ELSE DefaultSessionHours))
  /\ UNCHANGED <<issued, now, ticks, nonce>>

\* logout when findOne or the save of the session throws.
logoutThrows(sessionId) ==
  /\ last = Idle
  /\ last' = caught("logout", "Logout failed")
  /\ UNCHANGED <<users, sessions, issued, now, ticks, nonce>>

\* logoutAll when the bulk update throws.
logoutAllThrows(userId) ==
  /\ last = Idle
  /\ last' = caught("logoutAll", "Logout all sessions failed")
  /\ UNCHANGED <<users, sessions, issued, now, ticks, nonce>>

\* refreshToken when a read or jwt.sign throws (it writes nothing).
refreshTokenThrows(t) ==
  /\ last = Idle
  /\ last' = caught("refreshToken", "Token refresh failed")
  /\ UNCHANGED <<users, sessions, issued, now, ticks, nonce>>

\* changePassword when a call throws: up to the save of the user, or at
\* the bulk revoke (the new password is stored).
changePasswordThrows(userId, data) ==
  /\ last = Idle
  /\ last' = caught("changePassword", "Password change failed")
  /\ \/ UNCHANGED users
     \/ /\ userId \in UserIds
        /\ validateUserPassword(users[userId], data.currentPassword)
        /\ validatePassword(data.newPassword).isValid
        /\ users' = [users EXCEPT ![userId] =
             saveUser(@, [@ EXCEPT !.password = Plain(data.newPassword)])]
  /\ UNCHANGED <<sessions, issued, now, ticks, nonce>>

\* forgotPassword when findOne or the save of the user throws.
forgotPasswordThrows(data) ==
  /\ last = Idle
  /\ last' = caught("forgotPassword", "Password reset request failed")
  /\ UNCHANGED <<users, sessions, issued, now, ticks, nonce>>

\* resetPassword when a call throws: up to the save of the user, or at the
\* bulk revoke (the new password is stored).
resetPasswordThrows(data) ==
  /\ last = Idle
  /\ last' = caught("resetPassword", "Password reset failed")
  /\ \/ UNCHANGED users
     \/ /\ validatePassword(data.newPassword).isValid
        /\ \E u \in resetCandidates :
             /\ users[u].passwordResetToken # NoHash
             /\ bcryptCompare(data.token, users[u].passwordResetToken)
             /\ users' = [users EXCEPT ![u] =
                  saveUser(@, [@ EXCEPT !.password = Plain(data.newPassword),
                                        !.passwordResetToken = UndefinedHash,
                                        !.passwordResetExpires = UndefinedTime])]
  /\ UNCHANGED <<sessions, issued, now, ticks, nonce>>

\* verifyEmail when getOne or the save of the user throws.
verifyEmailThrows(data) ==
  /\ last = Idle
  /\ last' = caught("verifyEmail", "Email verification failed")
  /\ UNCHANGED <<users, sessions, issued, now, ticks, nonce>>

\* ------------------------------------------------------------------------
\* Handlers step by step: a handler runs from one await of the repository
\* to the next while other requests are in flight.
\* ------------------------------------------------------------------------
\* sessionRepository.save(entity) of a loaded row: the row is read again and
\* every column in which the entity differs from it is written, which
\* leaves the row equal to the entity.
saveSession(row, entity) == entity

\* authenticate up to its save: the token is verified, the user and the
\* session are read, the session is checked and stamped.
authenticateLoad(r, h) ==
  /\ last = Idle
  /\ inflight[r] = NoRequest
  /\ inflight' = [inflight EXCEPT ![r] =
       IF authenticateOutcome(h).success
         THEN awaiting("authenticate", "save", [header |-> h],
                       h[2].userId, h[2].sessionId,
                       updateLastAccessed(sessions[h[2].sessionId]))
         ELSE answered("authenticate", [header |-> h], 0, 0,
                       authenticateOutcome(h))]
  /\ UNCHANGED <<users, sessions, issued, now, ticks, nonce, last>>

\* authenticate from its save on: the stamped session is saved, req.user
\* and req.session are set, next() is called.
authenticateSave(r) ==
  /\ last = Idle
  /\ inflight[r].op = "authenticate"
  /\ inflight[r].pc = "save"
  /\ sessions' = [sessions EXCEPT ![inflight[r].sessionId] =
       saveSession(@, inflight[r].loaded[1])]
  /\ inflight' = [inflight EXCEPT ![r] =
       answered("authenticate", @.input[1], @.id, @.sessionId,
                Result("authenticate", TRUE, 200, "", "",
                       @.id, @.sessionId, {}))]
  /\ UNCHANGED <<users, issued, now, ticks, nonce, last>>

\* logout up to its save: the session is read and revoked in memory.
logoutLoad(r, sessionId) ==
  /\ last = Idle
  /\ inflight[r] = NoRequest
  /\ inflight' = [inflight EXCEPT ![r] =
       IF sessionId \in SessionIds
         THEN awaiting("logout", "save", [sessionId |-> sessionId], 0,
                       sessionId, revoke(sessions[sessionId], "User logout", ""))
         ELSE answered("logout", [sessionId |-> sessionId], 0, sessionId,
                       ServiceResult("logout", TRUE, "Logged out successfully"))]
  /\ UNCHANGED <<users, sessions, issued, now, ticks, nonce, last>>

logoutSave(r) ==
  /\ last = Idle
  /\ inflight[r].op = "logout"
  /\ inflight[r].pc = "save"
  /\ sessions' = [sessions EXCEPT ![inflight[r].sessionId] =
       saveSession(@, inflight[r].loaded[1])]
  /\ inflight' = [inflight EXCEPT ![r] =
       answered("logout", @.input[1], @.id, @.sessionId,
                ServiceResult("logout", TRUE, "Logged out successfully"))]
  /\ UNCHANGED <<users, issued, now, ticks, nonce, last>>

\* login up to its save of the user: the user is read, the password is
\* compared, lastLoginAt is set in memory.
loginLoad(r, data) ==
  /\ last = Idle
  /\ inflight[r] = NoRequest
  /\ LET found == usersByEmail(trim(toLowerCase(data.email)))
         failed == answered("login", data, 0, 0,
                     ServiceResult("login", FALSE, "Invalid email or password"))
     IN \/ /\ \A u \in found : ~users[u].isActive
           /\ inflight' = [inflight EXCEPT ![r] = failed]
        \/ \E u \in found :
             /\ users[u].isActive
             /\ ~validateUserPassword(users[u], data.password)
             /\ inflight' = [inflight EXCEPT ![r] = failed]
        \/ \E u \in found :
             /\ users[u].isActive
             /\ validateUserPassword(users[u], data.password)
             /\ inflight' = [inflight EXCEPT ![r] =
                  awaiting("login", "save", data, u, 0,
                           [users[u] EXCEPT !.lastLoginAt = now])]
  /\ UNCHANGED <<users, sessions, issued, now, ticks, nonce, last>>

\* login at its save of the user.
loginSave(r) ==
  /\ last = Idle
  /\ inflight[r].op = "login"
  /\ inflight[r].pc = "save"
  /\ LET saved == saveUser(users[inflight[r].id], inflight[r].loaded[1])
     IN /\ users' = [users EXCEPT ![inflight[r].id] = saved]
        /\ inflight' = [inflight EXCEPT ![r] =
             awaiting("login", "session", @.input[1], @.id, 0, saved)]
  /\ UNCHANGED <<sessions, issued, now, ticks, nonce, last>>

\* login from the insert of its session on: the tokens are signed and the
\* response is returned.
loginCreateSession(r) ==
  /\ last = Idle
  /\ inflight[r].op = "login"
  /\ inflight[r].pc = "session"
  /\ Len(sessions) < MaxSessions
  /\ Cardinality(issued) < MaxIssued
  /\ LET u == inflight[r].id
         tokens == generateTokens(u, inflight[r].loaded[1], Len(sessions) + 1)
     IN /\ sessions' = Append(sessions,
             createSession(u, IF inflight[r].input[1].rememberMe
                                THEN RememberMeDays * HoursPerDay
                                ELSE DefaultSessionHours))
        /\ issued' = issued \cup {tokens}
        /\ inflight' = [inflight EXCEPT ![r] =
             answered("login", @.input[1], u, Len(sessions) + 1,
                      AuthResponse("login", "Login successful", u, tokens))]
  /\ UNCHANGED <<users, now, ticks, nonce, last>>

\* register up to its insert of the user: the lookup by email or username,
\* the validation of the password, the entity built in memory.
registerFind(r, data) ==
  /\ last = Idle
  /\ inflight[r] = NoRequest
  /\ \/ \E u \in registerMatches(data) :
          /\ inflight' = [inflight EXCEPT ![r] =
               answered("register", data, 0, 0,
                        ServiceResult("register", FALSE,
                                      registerConflictMessage(users[u], data)))]
          /\ UNCHANGED nonce
     \/ /\ registerMatches(data) = {}
        /\ ~validatePassword(data.password).isValid
        /\ inflight' = [inflight EXCEPT ![r] =
             answered("register", data, 0, 0,
                      ServiceResult("register", FALSE,
                        join(validatePassword(data.password).errors, ", ")))]
        /\ UNCHANGED nonce
     \/ /\ registerMatches(data) = {}
        /\ validatePassword(data.password).isValid
        /\ nonce' = nonce + 1
        /\ inflight' = [inflight EXCEPT ![r] =
             awaiting("register", "insert", data, 0, 0,
                      generateEmailVerificationToken(
                        NewUser(trim(toLowerCase(data.email)), data.username,
                                data.password, "client", FALSE),
                        nonce + 1))]
  /\ UNCHANGED <<users, sessions, issued, now, ticks, last>>

\* The table without its unique indexes (C37 fails under it).
violatesUniqueNoIndex(e) == FALSE

\* The unique indexes on users.email and users.username: an insert of a row
\* that repeats a stored email or username fails.
violatesUnique(e) ==
  \E u \in UserIds :
    users[u].email = e.email \/ users[u].username = e.username

\* register at its insert of the user: the hooks run and the row is
\* inserted, or the insert fails and the catch block answers.
registerInsert(r) ==
  /\ last = Idle
  /\ inflight[r].op = "register"
  /\ inflight[r].pc = "insert"
  /\ LET savedUser == insertUser(inflight[r].loaded[1])
     IN IF violatesUnique(savedUser)
          THEN /\ inflight' = [inflight EXCEPT ![r] =
                    answered("register", @.input[1], 0, 0,
                             caught("register",
                                    "Registration failed. Please try again."))]
               /\ UNCHANGED users
          ELSE /\ users' = Append(users, savedUser)
               /\ inflight' = [inflight EXCEPT ![r] =
                    awaiting("register", "session", @.input[1],
                             Len(users) + 1, 0, savedUser)]
  /\ UNCHANGED <<sessions, issued, now, ticks, nonce, last>>

\* register from the insert of its session on.
registerCreateSession(r) ==
  /\ last = Idle
  /\ inflight[r].op = "register"
  /\ inflight[r].pc = "session"
  /\ Len(sessions) < MaxSessions
  /\ Cardinality(issued) < MaxIssued
  /\ LET u == inflight[r].id
         tokens == generateTokens(u, inflight[r].loaded[1], Len(sessions) + 1)
     IN /\ sessions' = Append(sessions, createSession(u, DefaultSessionHours))
        /\ issued' = issued \cup {tokens}
        /\ inflight' = [inflight EXCEPT ![r] =
             answered("register", @.input[1], u, Len(sessions) + 1,
                      AuthResponse("register",
                        "Registration successful. Please check your email to verify your account.",
                        u, tokens))]
  /\ UNCHANGED <<users, now, ticks, nonce, last>>

\* A handler that ran from its first statement to its answer while other
\* requests were in flight: its request and its answer are kept.
served(r, data, id) ==
  /\ inflight[r] = NoRequest
  /\ inflight' = [inflight EXCEPT ![r] = answered(last'.op, data, id, 0, last')]

\* ------------------------------------------------------------------------
\* Session methods called on a stored row, the row saved after the call.
\* ------------------------------------------------------------------------
callSession(op, sessionId, session) ==
  /\ last = Idle
  /\ sessions' = [sessions EXCEPT ![sessionId] = session]
  /\ last' = Result(op, TRUE, 0, "", "", 0, sessionId, {})
  /\ UNCHANGED <<users, issued, now, ticks, nonce>>

callRevoke(sessionId, reason, by) ==
  callSession("revoke", sessionId, revoke(sessions[sessionId], reason, by))

callExtend(sessionId, hours) ==
  callSession("extend", sessionId, extend(sessions[sessionId], hours))

callUpdateLastAccessed(sessionId) ==
  callSession("updateLastAccessed", sessionId,
              updateLastAccessed(sessions[sessionId]))

\* ------------------------------------------------------------------------
\* Environment: the clock, and an administrator deactivating an account
\* (the isActive column; no handler of the service writes it).
\* ------------------------------------------------------------------------
Advance(d) ==
  /\ last = Idle
  /\ ticks < MaxTicks
  /\ now' = now + d
  /\ ticks' = ticks + 1
  /\ UNCHANGED <<users, sessions, issued, nonce, last>>

deactivate(userId) ==
  /\ last = Idle
  /\ users[userId].isActive
  /\ users' = [users EXCEPT ![userId].isActive = FALSE]
  /\ UNCHANGED <<sessions, issued, now, ticks, nonce, last>>

\* The result reaches the caller; the next request is handled after it.
respond ==
  /\ last # Idle
  /\ last' = Idle
  /\ UNCHANGED <<users, sessions, issued, now, ticks, nonce>>

\* ------------------------------------------------------------------------
\* Requests
\* ------------------------------------------------------------------------
RegisterRequests ==
  [email : RawEmails, username : Usernames, password : Passwords]

LoginRequests ==
  [email : RawEmails, password : Passwords, rememberMe : BOOLEAN]

ChangePasswordRequests ==
  [currentPassword : Passwords, newPassword : Passwords]

ForgotPasswordRequests == [email : RawEmails]

ResetPasswordRequests == [token : 0..nonce, newPassword : Passwords]

VerifyEmailRequests == [token : 0..nonce]

\* The instants that matter to a session created at the hour 0: the access
\* token's expiry, the session's expiry and the hour after it, the refresh
\* expiry and the hour after it.
TimeSteps ==
  { AccessTokenHours,
    DefaultSessionHours, DefaultSessionHours + 1,
    SessionRefreshDays * HoursPerDay, SessionRefreshDays * HoursPerDay + 1 }

\* Every handler of the service and the middleware, at one instant.
Next ==
  \/ \E h \in Headers : authenticate(h) /\ UNCHANGED <<assignment, generated, inflight>>
  \/ \E data \in RegisterRequests : register(data) /\ nonce' <= MaxNonce
       /\ UNCHANGED <<assignment, generated, inflight>>
  \/ \E data \in LoginRequests : login(data) /\ UNCHANGED <<assignment, generated, inflight>>
  \/ \E sessionId \in 1..(Len(sessions) + 1) : logout(sessionId)
       /\ UNCHANGED <<assignment, generated, inflight>>
  \/ \E userId \in UserIds : logoutAll(userId) /\ UNCHANGED <<assignment, generated, inflight>>
  \/ \E t \in PresentableTokens : refreshToken(t) /\ UNCHANGED <<assignment, generated, inflight>>
  \/ \E userId \in 1..(Len(users) + 1), data \in ChangePasswordRequests :
       changePassword(userId, data) /\ UNCHANGED <<assignment, generated, inflight>>
  \/ \E data \in ForgotPasswordRequests :
       forgotPassword(data) /\ nonce' <= MaxNonce /\ UNCHANGED <<assignment, generated, inflight>>
  \/ \E data \in ResetPasswordRequests : resetPassword(data)
       /\ UNCHANGED <<assignment, generated, inflight>>
  \/ \E userId \in UserIds : deactivate(userId) /\ UNCHANGED <<assignment, generated, inflight>>
  \/ respond /\ UNCHANGED <<assignment, generated, inflight>>

Spec == Init /\ [][Next]_vars

\* The session lifecycle as time passes.
NextClock ==
  \/ \E h \in Headers : authenticate(h) /\ UNCHANGED <<assignment, generated, inflight>>
  \/ \E data \in RegisterRequests : register(data) /\ nonce' <= MaxNonce
       /\ UNCHANGED <<assignment, generated, inflight>>
  \/ \E data \in LoginRequests : login(data) /\ UNCHANGED <<assignment, generated, inflight>>
  \/ \E sessionId \in 1..(Len(sessions) + 1) : logout(sessionId)
       /\ UNCHANGED <<assignment, generated, inflight>>
  \/ \E userId \in UserIds : logoutAll(userId) /\ UNCHANGED <<assignment, generated, inflight>>
  \/ \E t \in PresentableTokens : refreshToken(t) /\ UNCHANGED <<assignment, generated, inflight>>
  \/ \E userId \in UserIds : deactivate(userId) /\ UNCHANGED <<assignment, generated, inflight>>
  \/ \E d \in TimeSteps : Advance(d) /\ UNCHANGED <<assignment, generated, inflight>>
  \/ respond /\ UNCHANGED <<assignment, generated, inflight>>

SpecClock == Init /\ [][NextClock]_vars

\* The instants that matter to a token generated at the hour 0: the expiry
\* of a reset token and that of a verification token.
TokenTimeSteps == {ResetTokenHours, VerificationTokenHours}

\* The reset and verification tokens as time passes.
NextTokens ==
  \/ \E data \in RegisterRequests : register(data) /\ nonce' <= MaxTokens
       /\ UNCHANGED <<assignment, generated, inflight>>
  \/ \E data \in LoginRequests : login(data) /\ UNCHANGED <<assignment, generated, inflight>>
  \/ \E data \in ForgotPasswordRequests :
       forgotPassword(data) /\ nonce' <= MaxTokens /\ UNCHANGED <<assignment, generated, inflight>>
  \/ \E data \in ResetPasswordRequests : resetPassword(data)
       /\ UNCHANGED <<assignment, generated, inflight>>
  \/ \E data \in VerifyEmailRequests : verifyEmail(data) /\ UNCHANGED <<assignment, generated, inflight>>
  \/ \E d \in TokenTimeSteps : Advance(d) /\ UNCHANGED <<assignment, generated, inflight>>
  \/ respond /\ UNCHANGED <<assignment, generated, inflight>>

SpecTokens == Init /\ [][NextTokens]_vars

\* The hours asked of extend: its default, and one hour.
ExtendHours == {1, DefaultSessionHours}

\* The instants that matter to a revoked session: before and after the
\* expiry of a session, and after the refresh expiry.
SessionTimeSteps ==
  {1, DefaultSessionHours + 1, SessionRefreshDays * HoursPerDay + 1}

\* The life of the sessions of one user as time passes: logins, the
\* session's own methods, and the handlers that revoke or refresh.
NextSession ==
  \/ \E data \in LoginRequests : login(data) /\ UNCHANGED <<assignment, generated, inflight>>
  \/ \E sessionId \in SessionIds : logout(sessionId)
       /\ UNCHANGED <<assignment, generated, inflight>>
  \/ \E userId \in UserIds : logoutAll(userId) /\ UNCHANGED <<assignment, generated, inflight>>
  \/ \E t \in PresentableTokens : refreshToken(t) /\ UNCHANGED <<assignment, generated, inflight>>
  \/ \E sessionId \in SessionIds : callRevoke(sessionId, "", "")
       /\ UNCHANGED <<assignment, generated, inflight>>
  \/ \E sessionId \in SessionIds, hours \in ExtendHours :
       callExtend(sessionId, hours) /\ UNCHANGED <<assignment, generated, inflight>>
  \/ \E sessionId \in SessionIds : callUpdateLastAccessed(sessionId)
       /\ UNCHANGED <<assignment, generated, inflight>>
  \/ \E d \in SessionTimeSteps : Advance(d) /\ UNCHANGED <<assignment, generated, inflight>>
  \/ respond /\ UNCHANGED <<assignment, generated, inflight>>

SpecSession == Init /\ [][NextSession]_vars

Slots == 1..MaxInflight

\* Requests served while others are in flight: the handlers step by step,
\* and login, changePassword and logoutAll from start to answer.
NextRace ==
  \/ \E data \in LoginRequests : login(data)
       /\ UNCHANGED <<assignment, generated, inflight>>
  \/ \E r \in Slots, h \in Headers : authenticateLoad(r, h)
       /\ UNCHANGED <<assignment, generated>>
  \/ \E r \in Slots : authenticateSave(r) /\ UNCHANGED <<assignment, generated>>
  \/ \E r \in Slots, sessionId \in SessionIds : logoutLoad(r, sessionId)
       /\ UNCHANGED <<assignment, generated>>
  \/ \E r \in Slots : logoutSave(r) /\ UNCHANGED <<assignment, generated>>
  \/ \E r \in Slots, data \in LoginRequests : loginLoad(r, data)
       /\ UNCHANGED <<assignment, generated>>
  \/ \E r \in Slots : loginSave(r) /\ UNCHANGED <<assignment, generated>>
  \/ \E r \in Slots : loginCreateSession(r)
       /\ UNCHANGED <<assignment, generated>>
  \/ \E r \in Slots, data \in RegisterRequests : registerFind(r, data)
       /\ nonce' <= MaxTokens
       /\ UNCHANGED <<assignment, generated>>
  \/ \E r \in Slots : registerInsert(r) /\ Len(users') <= MaxRaceUsers
       /\ UNCHANGED <<assignment, generated>>
  \/ \E r \in Slots : registerCreateSession(r)
       /\ UNCHANGED <<assignment, generated>>
  \/ \E r \in Slots, userId \in UserIds, data \in ChangePasswordRequests :
       changePassword(userId, data) /\ served(r, data, userId)
       /\ UNCHANGED <<assignment, generated>>
  \/ \E r \in Slots, userId \in UserIds :
       logoutAll(userId) /\ served(r, [userId |-> userId], userId)
       /\ UNCHANGED <<assignment, generated>>
  \/ respond /\ UNCHANGED <<assignment, generated, inflight>>

SpecRace == Init /\ [][NextRace]_vars

\* The role gates.  No handler gives a user a role other than client
\* (register) or admin (createDefaultAdmin); a coach is a row whose role
\* column was set in the database, so the second user and its role are part
\* of the initial state.
MemberEmail == <<"c","@","s">>
MemberUsername == "carol"
MemberPassword == <<"P","a","s","s","w","0","r","d","!">>

InitRoles ==
  /\ \E role \in UserRole :
       users = <<DefaultAdmin,
                 hashPassword(NewUser(normalizeEmail(MemberEmail),
                                      MemberUsername, MemberPassword,
                                      role, TRUE))>>
  /\ sessions = <<>>
  /\ issued = {}
  /\ now = 0
  /\ ticks = 0
  /\ nonce = 0
  /\ last = Idle
  /\ assignment = NewAssignment
  /\ generated = NoPassword
  /\ inflight = NoRequests

RoleLists ==
  {<<>>, <<"client">>, <<"coach">>, <<"coach", "client">>,
   <<"admin", "coach", "client">>}

NextRoles ==
  \/ \E data \in LoginRequests : login(data) /\ UNCHANGED <<assignment, generated, inflight>>
  \/ \E h \in Headers : authenticate(h) /\ UNCHANGED <<assignment, generated, inflight>>
  \/ \E roles \in RoleLists : requireRole(roles) /\ UNCHANGED <<assignment, generated, inflight>>
  \/ requireAdmin /\ UNCHANGED <<assignment, generated, inflight>>
  \/ requireCoach /\ UNCHANGED <<assignment, generated, inflight>>
  \/ respond /\ UNCHANGED <<assignment, generated, inflight>>

SpecRoles == InitRoles /\ [][NextRoles]_vars

\* The routes behind optionalAuth, with sessions created, revoked and
\* running out.
NextOptional ==
  \/ \E h \in Headers : optionalAuth(h) /\ UNCHANGED <<assignment, generated, inflight>>
  \/ \E data \in LoginRequests : login(data) /\ UNCHANGED <<assignment, generated, inflight>>
  \/ \E sessionId \in 1..(Len(sessions) + 1) : logout(sessionId)
       /\ UNCHANGED <<assignment, generated, inflight>>
  \/ \E userId \in UserIds : deactivate(userId) /\ UNCHANGED <<assignment, generated, inflight>>
  \/ \E d \in TimeSteps : Advance(d) /\ UNCHANGED <<assignment, generated, inflight>>
  \/ respond /\ UNCHANGED <<assignment, generated, inflight>>

SpecOptional == Init /\ [][NextOptional]_vars

\* AuthService with calls that may throw.
NextFaults ==
  \/ \E data \in RegisterRequests : register(data) /\ nonce' <= MaxNonce
       /\ UNCHANGED <<assignment, generated, inflight>>
  \/ \E data \in LoginRequests : login(data) /\ UNCHANGED <<assignment, generated, inflight>>
  \/ \E sessionId \in 1..(Len(sessions) + 1) : logout(sessionId)
       /\ UNCHANGED <<assignment, generated, inflight>>
  \/ \E userId \in UserIds : logoutAll(userId) /\ UNCHANGED <<assignment, generated, inflight>>
  \/ \E t \in PresentableTokens : refreshToken(t) /\ UNCHANGED <<assignment, generated, inflight>>
  \/ \E userId \in 1..(Len(users) + 1), data \in ChangePasswordRequests :
       changePassword(userId, data) /\ UNCHANGED <<assignment, generated, inflight>>
  \/ \E data \in ForgotPasswordRequests :
       forgotPassword(data) /\ nonce' <= MaxNonce /\ UNCHANGED <<assignment, generated, inflight>>
  \/ \E data \in ResetPasswordRequests : resetPassword(data)
       /\ UNCHANGED <<assignment, generated, inflight>>
  \/ \E data \in VerifyEmailRequests : verifyEmail(data)
       /\ UNCHANGED <<assignment, generated, inflight>>
  \/ \E data \in RegisterRequests : registerThrows(data) /\ nonce' <= MaxNonce
       /\ UNCHANGED <<assignment, generated, inflight>>
  \/ \E data \in LoginRequests : loginThrows(data) /\ UNCHANGED <<assignment, generated, inflight>>
  \/ \E sessionId \in 1..(Len(sessions) + 1) : logoutThrows(sessionId)
       /\ UNCHANGED <<assignment, generated, inflight>>
  \/ \E userId \in UserIds : logoutAllThrows(userId) /\ UNCHANGED <<assignment, generated, inflight>>
  \/ \E t \in PresentableTokens : refreshTokenThrows(t)
       /\ UNCHANGED <<assignment, generated, inflight>>
  \/ \E userId \in 1..(Len(users) + 1), data \in ChangePasswordRequests :
       changePasswordThrows(userId, data) /\ UNCHANGED <<assignment, generated, inflight>>
  \/ \E data \in ForgotPasswordRequests : forgotPasswordThrows(data)
       /\ UNCHANGED <<assignment, generated, inflight>>
  \/ \E data \in ResetPasswordRequests : resetPasswordThrows(data)
       /\ UNCHANGED <<assignment, generated, inflight>>
  \/ \E data \in VerifyEmailRequests : verifyEmailThrows(data)
       /\ UNCHANGED <<assignment, generated, inflight>>
  \/ respond /\ UNCHANGED <<assignment, generated, inflight>>

SpecFaults == Init /\ [][NextFaults]_vars

\* generateRandomPassword called once with each length.
Lengths == {0, 3, 4, 5, 8}

InitPassword ==
  /\ users = <<DefaultAdmin>>
  /\ sessions = <<>>
  /\ issued = {}
  /\ now = 0
  /\ ticks = 0
  /\ nonce = 0
  /\ last = Idle
  /\ assignment = NewAssignment
  /\ \E length \in Lengths : generated = [length |-> length, password |-> <<>>]
  /\ inflight = NoRequests

NextPassword ==
  \/ generate
  \/ respond /\ UNCHANGED <<assignment, generated, inflight>>

SpecPassword == InitPassword /\ [][NextPassword]_vars

\* The life of one assignment, at one instant.
Reasons == {"", "injury"}

Actors == {"", "coach"}

NoteTexts == {"call"}

MapKeys == {"slot"}

MapValues == {1}

\* Ratings in thousandths: outside the range on both sides, its two ends,
\* 4.567, three values halfway between two hundredths, and NaN.
Ratings == {NaN, 0, 999, 1000, 1005, 2125, 4567, 4995, 5000, 5001, 6000}

Feedbacks == {"", "great"}

NextAssignment ==
  \/ \E reason \in Reasons : pause(reason)
       /\ Len(assignment'.notes) <= MaxNotes
       /\ UNCHANGED <<generated, inflight>>
  \/ \E reason \in Reasons : resume(reason)
       /\ Len(assignment'.notes) <= MaxNotes
       /\ UNCHANGED <<generated, inflight>>
  \/ \E reason \in Reasons, by \in Actors : complete(reason, by)
       /\ Len(assignment'.notes) <= MaxNotes
       /\ UNCHANGED <<generated, inflight>>
  \/ \E reason \in Reasons, by \in Actors : terminate(reason, by)
       /\ Len(assignment'.notes) <= MaxNotes
       /\ UNCHANGED <<generated, inflight>>
  \/ incrementSessionCount /\ assignment'.totalSessions <= MaxCount
       /\ UNCHANGED <<generated, inflight>>
  \/ completeSession /\ assignment'.completedSessions <= MaxCount
       /\ UNCHANGED <<generated, inflight>>
  \/ \E note \in NoteTexts, author \in Actors : addNote(note, author)
       /\ Len(assignment'.notes) <= MaxNotes
       /\ UNCHANGED <<generated, inflight>>
  \/ \E key \in MapKeys, value \in MapValues : setPreference(key, value)
       /\ UNCHANGED <<generated, inflight>>
  \/ \E key \in MapKeys, value \in MapValues : setGoal(key, value)
       /\ UNCHANGED <<generated, inflight>>
  \/ \E rating \in Ratings, feedback \in Feedbacks :
       setSatisfactionRating(rating, feedback)
       /\ UNCHANGED <<generated, inflight>>
  \/ respond /\ UNCHANGED <<assignment, generated, inflight>>

SpecAssignment == Init /\ [][NextAssignment]_vars

\* ------------------------------------------------------------------------
\* Properties
\* ------------------------------------------------------------------------

C2_StrictExpiry ==
  \A sid \in SessionIds :
    LET s == sessions[sid]
    IN /\ isValid(s, now) <=>
            (s.isActive /\ now < s.expiresAt /\ s.revokedAt = Null)
       /\ canRefresh(s, now) <=>
            (s.isActive /\ now < s.refreshTokenExpiresAt /\ s.revokedAt = Null)

\* C2, amended: a session is valid exactly when it is active, not revoked
\* and now <= expiresAt, and refreshable exactly when it is active, not
\* revoked, has a refresh expiry and now <= refreshTokenExpiresAt.
C2_ValidUpToExpiry ==
  \A sid \in SessionIds :
    LET s == sessions[sid]
    IN /\ isValid(s, now) <=>
            (s.isActive /\ now <= s.expiresAt /\ s.revokedAt = Null)
       /\ canRefresh(s, now) <=>
            /\ s.isActive
            /\ s.refreshTokenExpiresAt # Null
            /\ now <= s.refreshTokenExpiresAt
            /\ s.revokedAt = Null

\* C2, the case: the clock stands exactly at an active session's expiry and
\* at its refresh expiry, and the session is valid and refreshable.
C2_Witness ==
  \E sid \in SessionIds :
    /\ sessions[sid].isActive
    /\ now = sessions[sid].expiresAt
    /\ now = sessions[sid].refreshTokenExpiresAt
    /\ isValid(sessions[sid], now)
    /\ canRefresh(sessions[sid], now)

C4_LoginFailureUniform ==
  [][last'.op = "login" =>
     \A data \in LoginRequests :
       LET known == {u \in UserIds :
                       users[u].email = trim(toLowerCase(data.email))}
           unknown == known = {}
           deactivated == \E u \in known : ~users[u].isActive
           wrongPassword ==
             \E u \in known :
               users[u].password # bcryptHash(Plain(data.password))
       IN (login(data) /\ (unknown \/ deactivated \/ wrongPassword)) =>
            /\ last' = [op |-> "login", success |-> FALSE, status |-> 0,
                        error |-> "", message |-> "Invalid email or password",
                        userId |-> 0, sessionId |-> 0, tokens |-> {}]
            /\ sessions' = sessions
            /\ users' = users
            /\ issued' = issued]_vars

\* C4, the case: a login has just been refused with the generic message
\* while the table holds a deactivated account next to an active one.
C4_Witness ==
  /\ last.op = "login"
  /\ ~last.success
  /\ last.message = "Invalid email or password"
  /\ \E u \in UserIds : ~users[u].isActive
  /\ \E u \in UserIds : users[u].isActive

\* C5: a successful login appends exactly one session, active, unrevoked
\* and owned by the user who logged in, expiring 168 hours from now when
\* rememberMe is set and 24 hours from now otherwise; it sets the user's
\* lastLoginAt to now, returns one token pair whose access and refresh
\* tokens both carry the new session's id, and leaves every session that
\* existed before unchanged.
C5_LoginCreatesOneSession ==
  [][(last'.op = "login" /\ last'.success) =>
     \A data \in LoginRequests :
       login(data) =>
         LET u == last'.userId
             n == Len(sessions) + 1
         IN /\ u \in UserIds
            /\ users[u].email = trim(toLowerCase(data.email))
            /\ Len(sessions') = n
            /\ \A sid \in SessionIds : sessions'[sid] = sessions[sid]
            /\ sessions'[n].userId = u
            /\ sessions'[n].isActive
            /\ sessions'[n].revokedAt = Null
            /\ sessions'[n].expiresAt =
                 now + (IF data.rememberMe THEN 168 ELSE 24)
            /\ users'[u].lastLoginAt = now
            /\ Cardinality(last'.tokens) = 1
            /\ \A i \in last'.tokens :
                 /\ AccessOf(i).sessionId = n
                 /\ RefreshOf(i).sessionId = n
                 /\ AccessOf(i).userId = u
                 /\ RefreshOf(i).userId = u]_vars

\* C5, the case: a login with rememberMe has just succeeded, some time
\* after the start and next to an older session.
C5_Witness ==
  /\ last.op = "login"
  /\ last.success
  /\ now > 0
  /\ Len(sessions) = 2
  /\ sessions[2].expiresAt = now + 168

\* C6: a successful register appends one user with role client, active,
\* not email-verified and holding a pending email-verification token, and
\* one session owned by that user; right after it authenticate accepts the
\* returned access token and refresh accepts the returned refresh token,
\* both for the new session.
C6_RegisterSuccess ==
  [][(last'.op = "register" /\ last'.success) =>
     \A data \in RegisterRequests :
       register(data) =>
         LET id == Len(users) + 1
             n == Len(sessions) + 1
         IN /\ Len(users') = id
            /\ \A u \in UserIds : users'[u] = users[u]
            /\ users'[id].email = trim(toLowerCase(data.email))
            /\ users'[id].username = data.username
            /\ users'[id].role = "client"
            /\ users'[id].isActive
            /\ ~users'[id].isEmailVerified
            /\ users'[id].emailVerificationToken # NoHash
            /\ users'[id].emailVerificationExpires > now
            /\ Len(sessions') = n
            /\ \A sid \in SessionIds : sessions'[sid] = sessions[sid]
            /\ sessions'[n].userId = id
            /\ last'.userId = id
            /\ Cardinality(last'.tokens) = 1
            /\ \A i \in last'.tokens :
                 /\ authenticateOutcome(<<"Bearer", AccessOf(i)>>)'.status = 200
                 /\ authenticateOutcome(<<"Bearer", AccessOf(i)>>)'.userId = id
                 /\ authenticateOutcome(<<"Bearer", AccessOf(i)>>)'.sessionId = n
                 /\ refreshTokenOutcome(RefreshOf(i))'.success
                 /\ \A j \in refreshTokenOutcome(RefreshOf(i))'.tokens :
                      j.sessionId = n /\ j.userId = id]_vars

\* C6, the case: a register has just succeeded and the table holds the new
\* client, unverified, with its first session.
C6_Witness ==
  /\ last.op = "register"
  /\ last.success
  /\ Len(users) = 2
  /\ users[2].role = "client"
  /\ ~users[2].isEmailVerified
  /\ \E sid \in SessionIds : sessions[sid].userId = 2

\* C7 as stated: a register whose email or username is taken fails and
\* creates no user and no session, and whenever the requested email is
\* registered the message is "Email already registered", also when the
\* requested username is taken as well.
C7_EmailConflictReported ==
  [][last'.op = "register" =>
     \A data \in RegisterRequests :
       LET emailTaken ==
             \E u \in UserIds : users[u].email = trim(toLowerCase(data.email))
           usernameTaken ==
             \E u \in UserIds : users[u].username = data.username
       IN (register(data) /\ (emailTaken \/ usernameTaken)) =>
            /\ ~last'.success
            /\ users' = users
            /\ sessions' = sessions
            /\ emailTaken => last'.message = "Email already registered"]_vars

\* The sessions that pass isValid now.
ValidSessions == {sid \in SessionIds : isValid(sessions[sid], now)}

\* C8: logout(sessionId) answers success in every case; it leaves every
\* session but the named one unchanged and creates none; the named session,
\* when it exists, is afterwards inactive, revoked and not valid; when it
\* does not exist nothing changes; and a logout of a session that is
\* already revoked leaves the set of valid sessions as the first left it.
C8_LogoutExactlyOne ==
  [][last'.op = "logout" =>
     \A sessionId \in 1..(Len(sessions) + 1) :
       logout(sessionId) =>
         /\ last'.success
         /\ Len(sessions') = Len(sessions)
         /\ users' = users
         /\ \A sid \in SessionIds :
              sid # sessionId => sessions'[sid] = sessions[sid]
         /\ sessionId \in SessionIds =>
              /\ ~sessions'[sessionId].isActive
              /\ sessions'[sessionId].revokedAt # Null
              /\ sessionId \notin ValidSessions'
              /\ ValidSessions' = ValidSessions \ {sessionId}
         /\ sessionId \notin SessionIds => sessions' = sessions
         /\ (sessionId \in SessionIds /\ sessions[sessionId].revokedAt # Null)
              => ValidSessions' = ValidSessions]_vars

\* C8, the case: a logout has just revoked one of two sessions of the same
\* user and the other one is still valid.
C8_Witness ==
  /\ last.op = "logout"
  /\ last.success
  /\ \E a, b \in SessionIds :
       /\ sessions[a].userId = sessions[b].userId
       /\ sessions[a].revokedReason = "User logout"
       /\ ~sessions[a].isActive
       /\ b \in ValidSessions

\* C9: after logoutAll(userId) no session of that user is active or valid,
\* each one that was active carries the revocation time now, the actor
\* "user" and the reason "User logout all sessions", and the sessions of
\* every other user are unchanged.
C9_LogoutAllRevokesUser ==
  [][last'.op = "logoutAll" =>
     \A userId \in UserIds :
       logoutAll(userId) =>
         /\ last'.success
         /\ Len(sessions') = Len(sessions)
         /\ \A sid \in SessionIds :
              /\ sessions[sid].userId = userId =>
                   /\ ~sessions'[sid].isActive
                   /\ sid \notin ValidSessions'
              /\ (sessions[sid].userId = userId /\ sessions[sid].isActive) =>
                   /\ sessions'[sid].revokedAt = now
                   /\ sessions'[sid].revokedBy = "user"
                   /\ sessions'[sid].revokedReason = "User logout all sessions"
              /\ sessions[sid].userId # userId =>
                   sessions'[sid] = sessions[sid]]_vars

\* C9, the case: a logoutAll has just revoked one user's session while
\* another user's session is still valid.
C9_Witness ==
  /\ last.op = "logoutAll"
  /\ \E a, b \in SessionIds :
       /\ sessions[a].userId # sessions[b].userId
       /\ sessions[a].revokedReason = "User logout all sessions"
       /\ sessions[a].revokedBy = "user"
       /\ b \in ValidSessions

\* C10: a successful refresh returns one token pair, signed now, whose
\* access and refresh tokens both carry the sessionId and the userId of the
\* presented refresh token; it creates no session and leaves every stored
\* session's owner, expiresAt, refreshTokenExpiresAt and isActive as they
\* were.
C10_RefreshKeepsSession ==
  [][(last'.op = "refreshToken" /\ last'.success) =>
     \A t \in PresentableTokens :
       refreshToken(t) =>
         /\ t.type = "refresh"
         /\ Cardinality(last'.tokens) = 1
         /\ \A i \in last'.tokens :
              /\ i.iat = now
              /\ AccessOf(i).sessionId = t.sessionId
              /\ RefreshOf(i).sessionId = t.sessionId
              /\ AccessOf(i).userId = t.userId
              /\ RefreshOf(i).userId = t.userId
         /\ Len(sessions') = Len(sessions)
         /\ \A sid \in SessionIds :
              /\ sessions'[sid].userId = sessions[sid].userId
              /\ sessions'[sid].expiresAt = sessions[sid].expiresAt
              /\ sessions'[sid].refreshTokenExpiresAt =
                   sessions[sid].refreshTokenExpiresAt
              /\ sessions'[sid].isActive = sessions[sid].isActive]_vars

\* C10, the case: a refresh has just succeeded, some time after the
\* session it names was created, and returned a pair signed now.
C10_Witness ==
  /\ last.op = "refreshToken"
  /\ last.success
  /\ now > 0
  /\ \E i \in last.tokens :
       /\ i.iat = now
       /\ i \in issued
       /\ sessions[i.sessionId].refreshTokenExpiresAt < now + 168

\* C11 as stated: a refresh that fails answers "Invalid or expired refresh
\* token" whatever the cause: a signature that does not verify, a token
\* that is not a refresh token, a session that is missing, inactive or past
\* its refresh expiry.
C11_RefreshFailureGeneric ==
  [][last'.op = "refreshToken" =>
     \A t \in PresentableTokens :
       (refreshToken(t) /\ ~last'.success) =>
         last'.message = "Invalid or expired refresh token"]_vars

\* The sessions through which a request of the user can pass authenticate
\* now (the route runs authenticate before the handler).
AuthenticatedWith(userId) ==
  {sid \in SessionIds :
     /\ sessions[sid].userId = userId
     /\ users[userId].isActive
     /\ isValid(sessions[sid], now)}

C13_CurrentSessionKept ==
  [][(last'.op = "changePassword" /\ last'.success) =>
     \A userId \in UserIds, data \in ChangePasswordRequests :
       changePassword(userId, data) =>
         \A cur \in AuthenticatedWith(userId) :
           /\ sessions'[cur].isActive
           /\ cur \in ValidSessions']_vars

\* C14: after a successful changePassword of user U with a new password
\* different from the current one, the stored hash no longer verifies the
\* old password; and a login whose password the stored hash of the named
\* account does not verify fails.  So a login with U's email and the old
\* password that follows the change fails.
C14_OldPasswordRefused ==
  [][/\ (last'.op = "changePassword" /\ last'.success) =>
          \A userId \in UserIds, data \in ChangePasswordRequests :
            (changePassword(userId, data)
               /\ data.newPassword # data.currentPassword) =>
              /\ ~validateUserPassword(users'[userId], data.currentPassword)
              /\ users'[userId].email = users[userId].email
     /\ last'.op = "login" =>
          \A data \in LoginRequests :
            (login(data)
               /\ \A u \in usersByEmail(trim(toLowerCase(data.email))) :
                    ~validateUserPassword(users[u], data.password)) =>
              ~last'.success]_vars

\* C14, the case: the administrator, created with the password Admin123!,
\* has just changed it, and the stored hash is that of Passw0rd!.
C14_Witness ==
  /\ last.op = "changePassword"
  /\ last.success
  /\ Len(users) = 1
  /\ nonce = 0
  /\ users[1].password =
       bcryptHash(Plain(<<"P","a","s","s","w","0","r","d","!">>))
  /\ ~validateUserPassword(users[1], AdminPassword)

\* C15: a changePassword whose current password the stored hash does not
\* verify, or whose new password is shorter than 8 characters (one of the
\* strength rules), returns success = false and leaves every user row (the
\* stored hash included) and every session unchanged.
C15_ChangePasswordGated ==
  [][last'.op = "changePassword" =>
     \A userId \in UserIds, data \in ChangePasswordRequests :
       LET wrongCurrent ==
             users[userId].password # bcryptHash(Plain(data.currentPassword))
           weakNew == Len(data.newPassword) < 8
       IN (changePassword(userId, data) /\ (wrongCurrent \/ weakNew)) =>
            /\ ~last'.success
            /\ users' = users
            /\ sessions' = sessions
            /\ issued' = issued]_vars

\* C15, the case: a changePassword with the right current password has
\* just been refused for the strength of the new one, with a live session.
C15_Witness ==
  /\ last.op = "changePassword"
  /\ ~last.success
  /\ last.message # "User not found"
  /\ last.message # "Current password is incorrect"
  /\ ValidSessions # {}

\* C16 as stated: in every reachable state, also when several users hold
\* outstanding reset tokens, resetPassword with the unexpired token stored
\* for user U and a strong new password succeeds, revokes every active
\* session of U and leaves a stored hash that verifies the new password
\* (so that the following login with it succeeds).
C16_ResetWithOwnTokenSucceeds ==
  [][last'.op = "resetPassword" =>
     \A data \in ResetPasswordRequests :
       LET owners ==
             {u \in UserIds :
                /\ users[u].passwordResetToken = bcryptHash(Plain(data.token))
                /\ users[u].passwordResetExpires > now}
       IN (/\ resetPassword(data)
           /\ owners # {}
           /\ validatePassword(data.newPassword).isValid) =>
            /\ last'.success
            /\ \A u \in owners :
                 /\ validateUserPassword(users'[u], data.newPassword)
                 /\ \A sid \in SessionIds :
                      sessions[sid].userId = u => ~sessions'[sid].isActive]_vars

\* C17 as stated: a reset token is single-use and time-limited.  After a
\* successful resetPassword the same token is rejected by a later call; a
\* resetPassword succeeds only with a token that some user holds unexpired,
\* and changes the row of that user alone; a rejected resetPassword changes
\* no user and no session.
C17_ResetTokenSingleUse ==
  [][last'.op = "resetPassword" =>
     \A data \in ResetPasswordRequests :
       resetPassword(data) =>
         IF last'.success
           THEN /\ ~resetAccepts(data.token)'
                /\ \E u \in UserIds :
                     /\ users[u].passwordResetToken =
                          bcryptHash(Plain(data.token))
                     /\ users[u].passwordResetExpires > now
                     /\ \A v \in UserIds \ {u} : users'[v] = users[v]
           ELSE /\ users' = users
                /\ sessions' = sessions]_vars

\* C18 as stated: in every reachable state verifyEmail with the unexpired
\* token stored for user U succeeds, sets U.isEmailVerified and clears U's
\* verification token and its expiry; with any other token it fails and
\* changes no user; and isEmailVerified never returns from true to false.
C18_VerifyEmailClearsToken ==
  [][/\ last'.op = "verifyEmail" =>
          \A data \in VerifyEmailRequests :
            LET owners ==
                  {u \in UserIds :
                     /\ users[u].emailVerificationToken =
                          bcryptHash(Plain(data.token))
                     /\ users[u].emailVerificationExpires > now}
            IN verifyEmail(data) =>
                 IF owners # {}
                   THEN /\ last'.success
                        /\ \A u \in owners :
                             /\ users'[u].isEmailVerified
                             /\ users'[u].emailVerificationToken = NoHash
                             /\ users'[u].emailVerificationExpires = Null
                   ELSE /\ ~last'.success
                        /\ users' = users
     /\ \A u \in UserIds :
          users[u].isEmailVerified => users'[u].isEmailVerified]_vars

\* C19: forgotPassword returns the same response, success with the message
\* "If the email exists, a password reset link has been sent", whether or
\* not the email belongs to a user; when no user has the email nothing
\* changes; when a user has it, that user gets a new reset token expiring
\* one hour from now and no other user and no session is changed.
C19_ForgotPasswordGeneric ==
  [][last'.op = "forgotPassword" =>
     \A data \in ForgotPasswordRequests :
       forgotPassword(data) =>
         LET known == {u \in UserIds :
                         users[u].email = trim(toLowerCase(data.email))}
         IN /\ last' = [op |-> "forgotPassword", success |-> TRUE,
                        status |-> 0, error |-> "",
                        message |-> "If the email exists, a password reset link has been sent",
                        userId |-> 0, sessionId |-> 0, tokens |-> {}]
            /\ sessions' = sessions
            /\ issued' = issued
            /\ known = {} => users' = users
            /\ \A u \in known :
                 /\ users'[u].passwordResetToken # NoHash
                 /\ users'[u].passwordResetToken # users[u].passwordResetToken
                 /\ users'[u].passwordResetExpires = now + 1
                 /\ \A v \in UserIds \ {u} : users'[v] = users[v]]_vars

\* C19, the case: a forgotPassword has just answered, some time after the
\* start, and one of two users holds a reset token expiring in an hour
\* while the other holds none.
C19_Witness ==
  /\ last.op = "forgotPassword"
  /\ now > 0
  /\ Len(users) = 2
  /\ \E u, v \in UserIds :
       /\ users[u].passwordResetToken # NoHash
       /\ users[u].passwordResetExpires = now + 1
       /\ users[v].passwordResetToken = NoHash

\* C20: requireRole(allowed) calls next exactly when authenticate attached
\* a user to the request and that user's role is in the allow-list; with no
\* user attached it answers 401, with a role outside the list 403; it
\* changes nothing.  requireAdmin lets only an admin pass; requireCoach
\* lets an admin and a coach pass and answers 403 to a client.
C20_RequireRoleGate ==
  [][last'.op = "requireRole" =>
     LET attached == last.op = "authenticate" /\ last.success
         passes == last'.success /\ last'.status = 200
     IN /\ UNCHANGED <<users, sessions, issued, now, ticks, nonce>>
        /\ ~attached => last'.status = 401
        /\ \A roles \in RoleLists \cup {<<"admin">>, <<"admin", "coach">>} :
             requireRole(roles) =>
               /\ passes <=>
                    /\ attached
                    /\ \E i \in 1..Len(roles) :
                         roles[i] = users[last.userId].role
               /\ (attached /\ \A i \in 1..Len(roles) :
                                 roles[i] # users[last.userId].role)
                    => last'.status = 403
        /\ requireAdmin =>
             (passes <=> attached /\ users[last.userId].role = "admin")
        /\ requireCoach =>
             /\ passes <=>
                  attached /\ users[last.userId].role \in {"admin", "coach"}
             /\ attached /\ users[last.userId].role = "client"
                  => last'.status = 403]_vars

\* C20, the case: the coach gate has just turned an authenticated user
\* away, and the only user of another role than admin is a client.
C20_Witness ==
  /\ last.op = "requireRole"
  /\ last.status = 403
  /\ last.message = "Required role: admin or coach"
  /\ \E u \in UserIds : users[u].role = "client"
  /\ \E s \in SessionIds : sessions[s].userId = 2 /\ isValid(sessions[s], now)

\* C21: optionalAuth lets a request without a bearer token continue with
\* no user attached; a presented token that fails verification is answered
\* 401; and a user is attached only when the token's session exists,
\* belongs to the user, is active and passes isValid.
C21_OptionalAuthChecksSession ==
  [][last'.op = "optionalAuth" =>
     \A h \in Headers :
       optionalAuth(h) =>
         LET token == extractTokenFromHeader(h)
         IN /\ token = <<>> => last'.status = 200 /\ last'.userId = 0
            /\ (token # <<>> /\ verifyAccessToken(token[1], now).message # "ok")
                 => last'.status = 401
            /\ last'.userId # 0 =>
                 /\ activeSession(token[1].sessionId, token[1].userId)
                 /\ isValid(sessions[token[1].sessionId], now)]_vars

\* C22: the status of an assignment starts at active and changes only
\* along the edges active->paused (pause), paused->active (resume),
\* active->completed and paused->completed (complete), and any status but
\* terminated ->terminated (terminate); no other operation changes it and
\* terminated is never left.
C22_StatusEdges ==
  /\ assignment.status = "active"
  /\ [][/\ assignment.status # assignment'.status =>
             <<assignment.status, last'.op, assignment'.status>> \in
                { <<"active", "pause", "paused">>,
                  <<"paused", "resume", "active">>,
                  <<"active", "complete", "completed">>,
                  <<"paused", "complete", "completed">>,
                  <<"active", "terminate", "terminated">>,
                  <<"paused", "terminate", "terminated">>,
                  <<"completed", "terminate", "terminated">> }
        /\ assignment.status = "terminated" => assignment'.status = "terminated"
        /\ (last'.success /\ last'.op = "pause") =>
             assignment.status = "active" /\ assignment'.status = "paused"
        /\ (last'.success /\ last'.op = "resume") =>
             assignment.status = "paused" /\ assignment'.status = "active"
        /\ (last'.success /\ last'.op = "complete") =>
             /\ assignment.status \in {"active", "paused"}
             /\ assignment'.status = "completed"
        /\ (last'.success /\ last'.op = "terminate") =>
             /\ assignment.status # "terminated"
             /\ assignment'.status = "terminated"]_vars

\* C22, the case: an assignment that had been paused and resumed has just
\* been terminated, with a rating, a goal and a preference set.
C22_Witness ==
  /\ last.op = "terminate"
  /\ last.success
  /\ assignment.status = "terminated"
  /\ assignment.pausedAt # Null
  /\ assignment.resumedAt # Null
  /\ assignment.terminationReason = "injury"
  /\ assignment.satisfactionRating # Null
  /\ assignment.goals # {}
  /\ assignment.preferences # {}
  /\ assignment.totalSessions = 1

\* C23: a pause of an assignment that is not active, a resume of one that
\* is not paused, a complete of one that is completed or terminated and a
\* terminate of one that is terminated each fail with an Error and leave
\* every field of the assignment as it was.
C23_InvalidTransitionFails ==
  [][LET illegal ==
           \/ last'.op = "pause" /\ assignment.status # "active"
           \/ last'.op = "resume" /\ assignment.status # "paused"
           \/ /\ last'.op = "complete"
              /\ assignment.status \in {"completed", "terminated"}
           \/ last'.op = "terminate" /\ assignment.status = "terminated"
     IN illegal =>
          /\ ~last'.success
          /\ last'.error \in { "Can only pause active assignments",
                               "Can only resume paused assignments",
                               "Can only complete active or paused assignments",
                               "Assignment is already terminated" }
          /\ assignment' = assignment]_vars

\* C23, the case: a pause of a terminated assignment has just failed.
C23_Witness ==
  /\ last.op = "pause"
  /\ ~last.success
  /\ last.error = "Can only pause active assignments"
  /\ assignment.status = "terminated"
  /\ assignment.notes # <<>>

\* C24, as claimed: every successful pause, resume, complete and terminate
\* appends an entry to the notes, with or without a reason.
C24_TransitionAlwaysNotes ==
  [][(last'.success
        /\ last'.op \in {"pause", "resume", "complete", "terminate"})
       => /\ Len(assignment'.notes) = Len(assignment.notes) + 1
          /\ SubSeq(assignment'.notes, 1, Len(assignment.notes))
               = assignment.notes]_vars

\* C24, amended: a successful terminate always appends one entry to the
\* notes; a successful pause, resume or complete appends one entry, made of
\* its tag and the reason, when a non-empty reason is given, and leaves the
\* notes as they were when none is.
C24_TransitionNotesReason ==
  [][(last'.success
        /\ last'.op \in {"pause", "resume", "complete", "terminate"})
       => /\ \A reason \in Reasons :
               (\/ pause(reason)
                \/ resume(reason)
                \/ \E by \in Actors : complete(reason, by))
                 => assignment'.notes =
                      IF reason = ""
                        THEN assignment.notes
                        ELSE Append(assignment.notes,
                               [tag |-> CASE last'.op = "pause" -> "[PAUSED]"
                                          [] last'.op = "resume" -> "[RESUMED]"
                                          [] OTHER -> "[COMPLETED]",
                                at |-> Null, author |-> "", text |-> reason])
          /\ \A reason \in Reasons, by \in Actors :
               terminate(reason, by)
                 => assignment'.notes =
                      Append(assignment.notes,
                             [tag |-> "[TERMINATED]", at |-> Null,
                              author |-> "", text |-> reason])]_vars

\* C24, the case: an assignment paused without a reason, which left no
\* note, has just been terminated without a reason, which left one.
C24_Witness ==
  /\ last.op = "terminate"
  /\ last.success
  /\ assignment.pausedAt # Null
  /\ Len(assignment.notes) = 1
  /\ assignment.notes[1].tag = "[TERMINATED]"
  /\ assignment.notes[1].text = ""

\* C25: the notes of an assignment are append-only; whatever the operation,
\* the notes before it are a prefix of the notes after it.
C25_NotesAppendOnly ==
  [][/\ Len(assignment'.notes) >= Len(assignment.notes)
     /\ SubSeq(assignment'.notes, 1, Len(assignment.notes))
          = assignment.notes]_vars

\* C25, the case: addNote has just added a second entry behind the entry
\* of a transition.
C25_Witness ==
  /\ last.op = "addNote"
  /\ Len(assignment.notes) = 2
  /\ assignment.notes[1].tag \in {"[PAUSED]", "[RESUMED]", "[COMPLETED]",
                                  "[TERMINATED]"}
  /\ assignment.notes[2].tag = "note"

\* C26, as claimed: verifyRefreshToken on every issued access token fails
\* with the code INVALID_REFRESH_TOKEN, and refreshToken never succeeds
\* when given an access token.
C26_AccessTokenInvalidRefresh ==
  /\ [](\A i \in issued :
          verifyRefreshToken(AccessOf(i), now).code = "INVALID_REFRESH_TOKEN")
  /\ [][last'.op = "refreshToken" =>
          \A i \in issued :
            refreshToken(AccessOf(i)) => ~last'.success /\ issued' = issued]_vars

\* C26, amended: verifyRefreshToken on every issued access token fails,
\* with the code INVALID_REFRESH_TOKEN as long as the access token has not
\* reached its expiry and with REFRESH_TOKEN_EXPIRED from then on; and
\* refreshToken never succeeds, and issues nothing, when given an access
\* token.
C26_AccessTokenNeverRefreshes ==
  /\ [](\A i \in issued :
          verifyRefreshToken(AccessOf(i), now).code =
            IF now >= AccessOf(i).exp
              THEN "REFRESH_TOKEN_EXPIRED"
              ELSE "INVALID_REFRESH_TOKEN")
  /\ [][last'.op = "refreshToken" =>
          \A i \in issued :
            refreshToken(AccessOf(i)) => ~last'.success /\ issued' = issued]_vars

\* C26, the case: a refresh has just been refused while an access token is
\* out that has not expired and whose session could be refreshed.
C26_Witness ==
  /\ last.op = "refreshToken"
  /\ ~last.success
  /\ last.message = "Token refresh failed"
  /\ \E i \in issued :
       /\ now < AccessOf(i).exp
       /\ activeUser(i.userId)
       /\ activeSession(i.sessionId, i.userId)
       /\ canRefresh(sessions[i.sessionId], now)

\* C27: verifyAccessToken fails with the code TOKEN_EXPIRED on a token past
\* its expiry, and with the code INVALID_TOKEN both on a token whose
\* signature does not verify and on a verified, unexpired token that lacks
\* one of the claims userId, email, role, sessionId (a refresh token).
C27_VerifyAccessErrorKinds ==
  \A t \in PresentableTokens :
    /\ (t.signed /\ now >= t.exp)
         => verifyAccessToken(t, now).code = "TOKEN_EXPIRED"
    /\ ~t.signed => verifyAccessToken(t, now).code = "INVALID_TOKEN"
    /\ (t.signed /\ now < t.exp /\ ~hasAccessClaims(t))
         => verifyAccessToken(t, now).code = "INVALID_TOKEN"

\* C28: every AuthService operation, register, login, logout, logoutAll,
\* refreshToken, changePassword, forgotPassword, resetPassword and
\* verifyEmail, ends by returning a result that carries success true or
\* false and a message, also when one of its storage or token calls
\* throws; no error reaches the caller.
C28_NoExceptionEscapes ==
  [][last'.op \in {"register", "login", "logout", "logoutAll", "refreshToken",
                   "changePassword", "forgotPassword", "resetPassword",
                   "verifyEmail"}
       => /\ last'.success \in BOOLEAN
          /\ last'.error = ""
          /\ last'.status = 0
          /\ last'.message # ""
          /\ last'.success => last'.message \notin
               { "Registration failed. Please try again.",
                 "Login failed. Please try again.", "Logout failed",
                 "Logout all sessions failed", "Token refresh failed",
                 "Password change failed", "Password reset request failed",
                 "Password reset failed", "Email verification failed" }]_vars

\* C28, the case: register has just answered its failure message after the
\* insert of the session threw, the new user being stored already.
C28_Witness ==
  /\ last.op = "register"
  /\ ~last.success
  /\ last.message = "Registration failed. Please try again."
  /\ Len(users) = 2
  /\ sessions = <<>>

\* C29: setSatisfactionRating(r) fails for every r below 1 or above 5 and
\* then leaves satisfactionRating and clientFeedback as they were; for r
\* from 1 to 5 it stores the hundredth nearest to r; and so the stored
\* rating is always either absent or from 1.00 to 5.00.  (Ratings are in
\* thousandths.)
C29_RatingInRange ==
  /\ [](\/ assignment.satisfactionRating = Null
        \/ /\ assignment.satisfactionRating # NaN
           /\ assignment.satisfactionRating >= 1000
           /\ assignment.satisfactionRating <= 5000)
  /\ [][last'.op = "setSatisfactionRating" =>
          \A rating \in Ratings \ {NaN}, feedback \in Feedbacks :
            setSatisfactionRating(rating, feedback) =>
              IF rating < 1000 \/ rating > 5000
                THEN /\ ~last'.success
                     /\ assignment' = assignment
                ELSE /\ last'.success
                     /\ assignment'.satisfactionRating % 10 = 0
                     /\ assignment'.satisfactionRating - rating <= 5
                     /\ rating - assignment'.satisfactionRating <= 5
                     /\ rating = 4567 =>
                          assignment'.satisfactionRating = 4570]_vars

\* C30: for every requested length n generateRandomPassword(n) returns a
\* password of exactly n characters, with at least one lowercase letter,
\* one uppercase letter, one digit and one symbol, which validatePassword
\* accepts.
C30_GeneratedPasswordValid ==
  last.op = "generateRandomPassword" =>
    /\ Len(generated.password) = generated.length
    /\ hasChar(generated.password, LowerChars)
    /\ hasChar(generated.password, UpperChars)
    /\ hasChar(generated.password, DigitChars)
    /\ hasChar(generated.password, SymbolChars)
    /\ validatePassword(generated.password).isValid

\* C38: whatever pause, resume, complete and terminate calls were made,
\* returning or throwing, isActive is true exactly when the status is
\* active.
C38_ActiveFlagMatchesStatus ==
  assignment.isActive <=> (assignment.status = "active")

\* A pause that returned: the assignment is paused and its flag is down.
C38_Witness ==
  /\ last.op = "pause"
  /\ last.success
  /\ assignment.status = "paused"
  /\ ~assignment.isActive

\* C39: endedAt is set exactly when the status is completed or terminated,
\* so duration is null exactly for active and paused assignments; pausedAt
\* is set whenever the status is paused.
C39_EndStampMatchesStatus ==
  /\ (assignment.endedAt # Null)
       <=> (assignment.status \in {"completed", "terminated"})
  /\ (duration(assignment) = Null)
       <=> (assignment.status \in {"active", "paused"})
  /\ (assignment.status = "paused" => assignment.pausedAt # Null)

\* An assignment terminated after it had been paused: both stamps are set.
C39_Witness ==
  /\ last.op = "terminate"
  /\ last.success
  /\ assignment.status = "terminated"
  /\ assignment.endedAt # Null
  /\ assignment.pausedAt # Null
  /\ duration(assignment) # Null

\* C40: completedSessions never exceeds totalSessions, so the completion
\* rate lies between 0 and 100, and is 0 when there are no sessions.
C40_CompletedWithinTotal ==
  /\ assignment.completedSessions <= assignment.totalSessions
  /\ sessionCompletionRate(assignment) >= 0
  /\ sessionCompletionRate(assignment) <= 100000
  /\ (assignment.totalSessions = 0 => sessionCompletionRate(assignment) = 0)

C35_RefreshedTokenAccepted ==
  (last.op = "refreshToken" /\ last.success) =>
    \A i \in last.tokens :
      authenticateOutcome(<<"Bearer", AccessOf(i)>>).success

\* C31: login, forgotPassword and verifyEmail leave every stored password
\* hash as it was, and the password a login has just succeeded with still
\* verifies against the stored hash of that user, so that a second login
\* with it succeeds.
C31_SavesKeepPasswordHash ==
  [][(last'.op \in {"login", "forgotPassword", "verifyEmail"}) =>
       /\ Len(users') = Len(users)
       /\ \A u \in UserIds : users'[u].password = users[u].password
       /\ last'.op = "login" /\ last'.success =>
            \A data \in LoginRequests :
              login(data) =>
                validateUserPassword(users'[last'.userId], data.password)]_vars

\* C36: an AuthService operation that answers success = false, a storage
\* failure partway through included, leaves the stored users and sessions
\* exactly as they were before the call.
C36_FailureLeavesStoreUnchanged ==
  [][(/\ last = Idle
      /\ ~last'.success
      /\ last'.op \in {"register", "login", "logout", "logoutAll",
                       "refreshToken", "changePassword", "forgotPassword",
                       "resetPassword", "verifyEmail"}) =>
       /\ users' = users
       /\ sessions' = sessions]_vars

\* C37: whatever the interleaving of the register calls in flight, no two
\* stored users share an email, compared in lower case, or a username, and
\* of two registrations that both answered success neither the emails, in
\* lower case and trimmed, nor the usernames are the same.
C37_ConcurrentRegisterUnique ==
  /\ \A u, v \in UserIds :
       u # v =>
         /\ toLowerCase(users[u].email) # toLowerCase(users[v].email)
         /\ users[u].username # users[v].username
  /\ \A r1, r2 \in Slots :
       (/\ r1 # r2
        /\ inflight[r1].op = "register" /\ inflight[r1].result.success
        /\ inflight[r1].pc = "done"
        /\ inflight[r2].op = "register" /\ inflight[r2].result.success
        /\ inflight[r2].pc = "done") =>
         /\ trim(toLowerCase(inflight[r1].input[1].email))
              # trim(toLowerCase(inflight[r2].input[1].email))
         /\ inflight[r1].input[1].username # inflight[r2].input[1].username

\* Two registrations for one email, written in two ways, were in flight
\* together: both passed the lookup, one inserted its user and answered
\* success, the insert of the other failed.
C37_Witness ==
  \E r1, r2 \in Slots :
    /\ inflight[r1].op = "register" /\ inflight[r1].pc = "done"
    /\ inflight[r1].result.success
    /\ inflight[r2].op = "register" /\ inflight[r2].pc = "done"
    /\ inflight[r2].result.message = "Registration failed. Please try again."
    /\ inflight[r1].input[1].email # inflight[r2].input[1].email
    /\ trim(toLowerCase(inflight[r1].input[1].email))
         = trim(toLowerCase(inflight[r2].input[1].email))
    /\ Len(users) = 2

\* C32: when an authenticate that used the session S and a logout of S, or
\* a logoutAll of S's user, have both answered, in whatever order their
\* steps ran, S is stored as revoked: isActive false and revokedAt set.
C32_RevocationSurvivesRace ==
  \A r1, r2 \in Slots :
    (/\ inflight[r1].op = "authenticate"
     /\ inflight[r1].pc = "done"
     /\ inflight[r1].result.success
     /\ inflight[r2].pc = "done"
     /\ inflight[r2].result.success
     /\ \/ /\ inflight[r2].op = "logout"
           /\ inflight[r2].sessionId = inflight[r1].sessionId
        \/ /\ inflight[r2].op = "logoutAll"
           /\ inflight[r2].id = inflight[r1].id) =>
      /\ ~sessions[inflight[r1].sessionId].isActive
      /\ sessions[inflight[r1].sessionId].revokedAt # Null

\* C34: when a login of the user U that presented the password p and a
\* changePassword of U that answered success and set a password other than
\* p have both answered, in whatever order their steps ran, the session
\* that login created is not active.
C34_NoSessionFromOldPassword ==
  \A r1, r2 \in Slots :
    (/\ inflight[r1].op = "login"
     /\ inflight[r1].pc = "done"
     /\ inflight[r1].result.success
     /\ inflight[r2].op = "changePassword"
     /\ inflight[r2].pc = "done"
     /\ inflight[r2].result.success
     /\ inflight[r2].id = inflight[r1].id
     /\ inflight[r2].input[1].newPassword # inflight[r1].input[1].password) =>
      ~sessions[inflight[r1].sessionId].isActive

====
